---- MODULE Spec2Model ----
(***************************************************************************)
(* Call-center orchestration core of Centro-de-control-backend:            *)
(* campaign lifecycle, agent and campaign-lead state, the manual,          *)
(* progressive and predictive dialers and the AMI origination gateway.     *)
(*                                                                         *)
(* Tables of the database are variables; every endpoint and service        *)
(* function is an operator on those tables.  The specifications:           *)
(*   Spec      - dialing across two tenants, every handler running to      *)
(*               completion (one request at a time);                       *)
(*   SpecLife  - the campaign lifecycle with enrollment, assignment and    *)
(*               dialing, one request at a time;                           *)
(*   SpecTicks - dialer ticks as processes whose database round trips      *)
(*               (begin, get_next_lead, originate commit, AMI answer)      *)
(*               interleave with each other and with lifecycle requests;   *)
(*   SpecRace  - start, pause and stop requests whose read and write are   *)
(*               separate steps, racing on one campaign;                   *)
(*   SpecEdit  - edits and deletions of campaigns in every state;          *)
(*   SpecDisp  - dispositions on the leads of a campaign being dialed;     *)
(*   SpecQueue - get_next_lead over bounded lead tables;                   *)
(*   SpecSolo  - originations of one worker, the PBX answer a step;        *)
(*   SpecEnroll - individual and bulk enrollment into two campaigns;       *)
(*   SpecBatch - whole dialer ticks over two agents and two leads;         *)
(*   SpecManual - manual calls, accepted and refused;                      *)
(*   SpecEnded - a disposition request interleaved with a dialer tick;     *)
(*   SpecConfig - campaign creation and edits over request bodies;         *)
(*   SpecCallerId - the caller id of an origination, over its arguments;   *)
(*   SpecSchedule - ticks under every shape of schedule window;            *)
(*   SpecRetry, SpecRetryFair - ticks on a lead that failed, the latter    *)
(*               with a scheduler that keeps ticking;                      *)
(*   SpecBackoff - ticks on leads whose retry is due;                      *)
(*   SpecStamp - dispositions on two leads dialed for one agent;           *)
(*   SpecAssign - agents assigned to and removed from a campaign.          *)
(***************************************************************************)
EXTENDS Integers, Sequences, FiniteSets, TLC

\* ---------------------------------------------------------------- bounds
MaxCalls == 2      \* CallRecords ever created in one behaviour
MaxLeads == 2      \* CampaignLeads ever enrolled in one behaviour
MaxClock == 1      \* last instant of the clock
DayLen   == 2      \* instants per day
MaxEvents == 3     \* CallEvents on one CallRecord's timeline

\* ------------------------------------------------------------- universes
NULL == "null"

\* Nullable integer columns: no call bound, no lead, no timestamp.
NoCall == 0

NoLead == 0

NoTime == -1

Tenants == {"t1", "t2"}

\* The account each contact (Lead row of the CRM) belongs to.
ContactCuenta == [k \in {"k1", "k2", "k3"} |-> IF k = "k3" THEN "t2" ELSE "t1"]

\* leads.lead_base_id and the phone fields of leads.datos.
ContactBase == [k \in {"k1", "k2", "k3"} |-> IF k = "k3" THEN "b2" ELSE "b1"]

ContactDatos ==
    [ k1 |-> [tel |-> "p1", movil |-> "p1"],
      k2 |-> [tel |-> "p2", movil |-> NULL],
      k3 |-> [tel |-> "p3", movil |-> NULL] ]

Contacts == DOMAIN ContactCuenta

AgentStatus == {"offline", "available", "busy", "ringing", "on_call", "wrap_up", "paused"}

CampaignStatus == {"draft", "running", "paused", "completed", "stopped"}

DialerMode == {"manual", "progressive", "predictive"}

CampaignLeadStatus ==
    {"pending", "dialing", "contacted", "no_answer", "busy", "failed", "dnc",
     "scheduled", "completed", "abandoned"}

\* Disposition catalogue rows: flags es_contacto, es_final, requiere_reagendamiento.
Dispositions ==
    [ d_cb    |-> [es_contacto |-> FALSE, es_final |-> FALSE, requiere_reagendamiento |-> TRUE],
      d_final |-> [es_contacto |-> FALSE, es_final |-> TRUE,  requiere_reagendamiento |-> FALSE],
      d_open  |-> [es_contacto |-> FALSE, es_final |-> FALSE, requiere_reagendamiento |-> FALSE],
      d_contact  |-> [es_contacto |-> TRUE, es_final |-> FALSE, requiere_reagendamiento |-> FALSE],
      d_cb_final |-> [es_contacto |-> TRUE, es_final |-> TRUE,  requiere_reagendamiento |-> TRUE] ]

DispositionIds == DOMAIN Dispositions

VARIABLES
    campaign,   \* campaigns table: id -> row, for the rows that exist
    cagent,     \* campaign_agents table: set of <<campaign, agent>>
    agent,      \* agents table: id -> row
    lead,       \* campaign_leads table: sequence of rows, id = position = created_at order
    call,       \* call_records table with each record's call_events timeline
    dnc,        \* dnc_entries table: set of <<tenant, phone>>
    nodes,      \* tenants that own an active PbxNode
    now,        \* the clock
    resp,       \* what the last completed request returned
    tick        \* dialer ticks in flight: ticker -> frame

vars == <<campaign, cagent, agent, lead, call, dnc, nodes, now, resp, tick>>

\* The three tables origination writes, passed around as one value.
Tables(ag, ld, cl) == [agent |-> ag, lead |-> ld, call |-> cl]

Cur == Tables(agent, lead, call)

Min(a, b) == IF a <= b THEN a ELSE b

\* ------------------------------------------------------------------ clock
\* An instant t is a time of day in 0 .. DayLen-1 on a weekday 1..7.
CurrentTime(t) == t % DayLen

CurrentDow(t) == ((t \div DayLen) % 7) + 1

is_campaign_in_schedule(c, t) ==
    IF c.hora_inicio = NoTime \/ c.hora_fin = NoTime THEN TRUE
    ELSE IF c.dias_semana # {} /\ CurrentDow(t) \notin c.dias_semana THEN FALSE
    ELSE c.hora_inicio <= CurrentTime(t) /\ CurrentTime(t) <= c.hora_fin

\* ------------------------------------------------------- origination gateway
\* PBX node resolution: no agent or campaign of the model pins a node, so the
\* node is the tenant's first active one.
\* Node resolution that always finds a node.
ResolveNodeAlways(cuenta) == cuenta

ResolveNode(cuenta) == IF cuenta \in nodes THEN cuenta ELSE NULL

NewCallRecord(cuenta, a, destino, c, l) ==
    [ cuenta_id |-> cuenta, campaign_id |-> c, campaign_lead_id |-> l, agent_id |-> a,
      destino |-> destino, resultado |-> "pending", ended |-> FALSE, uniqueid |-> NULL,
      disposition_id |-> NULL, disposition_nota |-> NULL, events |-> <<"originate">> ]

\* originate_call's first commit without the lead's attempt counted.
OriginateCommitNoAttempt(d, cuenta, a, destino, c, l, intentos) ==
    LET id == Len(d.call) + 1 IN
    Tables(
        [d.agent EXCEPT ![a].estado = "ringing", ![a].current_call_id = id],
        IF l = NoLead THEN d.lead
        ELSE [d.lead EXCEPT ![l].estado = "dialing",
                            ![l].ultimo_intento = now,
                            ![l].assigned_agent_id = a],
        Append(d.call, NewCallRecord(cuenta, a, destino, c, l)))

\* originate_call up to its first commit: the CallRecord and its originate event,
\* the agent ringing and bound, the lead dialing with one more attempt.
\* intentos is the attempt count the caller's session holds for the lead.
OriginateCommit(d, cuenta, a, destino, c, l, intentos) ==
    LET id == Len(d.call) + 1 IN
    Tables(
        [d.agent EXCEPT ![a].estado = "ringing", ![a].current_call_id = id],
        IF l = NoLead THEN d.lead
        ELSE [d.lead EXCEPT ![l].estado = "dialing",
                            ![l].intentos = intentos + 1,
                            ![l].ultimo_intento = now,
                            ![l].assigned_agent_id = a],
        Append(d.call, NewCallRecord(cuenta, a, destino, c, l)))

\* The PBX answered Response: Success.
OriginateSuccess(d, id) ==
    Tables(d.agent, d.lead, [d.call EXCEPT ![id].uniqueid = "uid"])

\* the failure branch without the agent released.
OriginateFailureAgentKept(d, id) ==
    LET l == d.call[id].campaign_lead_id
    IN Tables(
        d.agent,
        IF l = NoLead THEN d.lead ELSE [d.lead EXCEPT ![l].estado = "failed"],
        [d.call EXCEPT ![id].resultado = "failed", ![id].ended = TRUE,
                       ![id].events = Append(@, "failed")])

\* The PBX answered an error, or the transport raised.
OriginateFailure(d, id) ==
    LET a == d.call[id].agent_id
        l == d.call[id].campaign_lead_id
    IN Tables(
        [d.agent EXCEPT ![a].estado = "available", ![a].current_call_id = NoCall],
        IF l = NoLead THEN d.lead ELSE [d.lead EXCEPT ![l].estado = "failed"],
        [d.call EXCEPT ![id].resultado = "failed", ![id].ended = TRUE,
                       ![id].events = Append(@, "failed")])

\* originate_call, whole: ok is the PBX's answer.
OriginateCall(d, cuenta, a, destino, c, l, ok) ==
    IF ResolveNode(cuenta) = NULL
    THEN [db |-> d, success |-> FALSE, call_record_id |-> NoCall]
    ELSE LET d1 == OriginateCommit(d, cuenta, a, destino, c, l,
                                   IF l = NoLead THEN 0 ELSE d.lead[l].intentos)
             id == Len(d1.call)
         IN IF ok
            THEN [db |-> OriginateSuccess(d1, id), success |-> TRUE,  call_record_id |-> id]
            ELSE [db |-> OriginateFailure(d1, id), success |-> FALSE, call_record_id |-> id]

\* ----------------------------------------------------------------- lead queue
\* The rows of campaign_leads; a deleted row keeps its position with no campaign.
LeadIds(ld) == { l \in DOMAIN ld : ld[l].campaign_id # NULL }

\* no number is ever found on the list.
IsDncNever(cuenta, telefono) == FALSE

IsDnc(cuenta, telefono) == <<cuenta, telefono>> \in dnc

\* The row a query "ORDER BY key ... first()" returns: least key, then least id.
FirstBy(S, key) ==
    IF S = {} THEN NoLead
    ELSE CHOOSE l \in S : \A m \in S : key[l] < key[m] \/ (key[l] = key[m] /\ l <= m)

CallbackDue(ld, c, t) ==
    { l \in LeadIds(ld) : /\ ld[l].campaign_id = c
                          /\ ld[l].estado = "scheduled"
                          /\ ld[l].callback_at # NoTime
                          /\ ld[l].callback_at <= t }

\* the retry tier without the limit on attempts.
RetryDueNoLimit(ld, c, t) ==
    { l \in LeadIds(ld) : /\ ld[l].campaign_id = c
                          /\ ld[l].estado \in {"no_answer", "busy", "failed"}
                          /\ ld[l].proximo_intento # NoTime
                          /\ ld[l].proximo_intento <= t }

RetryDue(ld, c, t) ==
    { l \in LeadIds(ld) : /\ ld[l].campaign_id = c
                          /\ ld[l].estado \in {"no_answer", "busy", "failed"}
                          /\ ld[l].intentos < campaign[c].max_retries
                          /\ ld[l].proximo_intento # NoTime
                          /\ ld[l].proximo_intento <= t }

PendingLeads(ld, c) ==
    { l \in LeadIds(ld) : ld[l].campaign_id = c /\ ld[l].estado = "pending" }

\* the queue with failed leads retried at once, whatever their retry time.
get_next_leadRetryAtOnce(ld, c, t) ==
    LET callback_at == [l \in LeadIds(ld) |-> ld[l].callback_at]
        created_at == [l \in LeadIds(ld) |-> l]
        retry == { l \in LeadIds(ld) : /\ ld[l].campaign_id = c
                                       /\ ld[l].estado \in {"no_answer", "busy", "failed"}
                                       /\ ld[l].intentos < campaign[c].max_retries }
    IN IF CallbackDue(ld, c, t) # {} THEN FirstBy(CallbackDue(ld, c, t), callback_at)
       ELSE IF retry # {} THEN FirstBy(retry, created_at)
       ELSE FirstBy(PendingLeads(ld, c), created_at)

get_next_lead(ld, c, t) ==
    LET callback_at == [l \in LeadIds(ld) |-> ld[l].callback_at]
        proximo_intento == [l \in LeadIds(ld) |-> ld[l].proximo_intento]
        created_at == [l \in LeadIds(ld) |-> l]
    IN IF CallbackDue(ld, c, t) # {} THEN FirstBy(CallbackDue(ld, c, t), callback_at)
       ELSE IF RetryDue(ld, c, t) # {} THEN FirstBy(RetryDue(ld, c, t), proximo_intento)
       ELSE FirstBy(PendingLeads(ld, c), created_at)

\* Assigned, active agents in state available.
get_available_agents(ag, c) ==
    { a \in DOMAIN ag : <<c, a>> \in cagent /\ ag[a].activo /\ ag[a].estado = "available" }

get_active_calls_count(ld, c) ==
    Cardinality({ l \in LeadIds(ld) : ld[l].campaign_id = c /\ ld[l].estado = "dialing" })

\* ------------------------------------------------------------- stats
CountEstado(ld, c, S) ==
    Cardinality({ l \in LeadIds(ld) : ld[l].campaign_id = c /\ ld[l].estado \in S })

\* update_campaign_stats: the counters are SQL counts over the rows as flushed (ld);
\* the session never autoflushes, so rows changed but not yet flushed count as
\* they were.  cmp carries the session's pending campaign changes.
update_campaign_stats(cmp, ld, c) ==
    IF c \notin DOMAIN cmp THEN cmp
    ELSE [cmp EXCEPT ![c].total_leads = CountEstado(ld, c, CampaignLeadStatus),
                     ![c].leads_contacted = CountEstado(ld, c, {"contacted"})
                                            + CountEstado(ld, c, {"completed"}),
                     ![c].leads_pending = CountEstado(ld, c, {"pending"})]

\* ------------------------------------------------------------- responses
\* status is the HTTP status, or for a manual call the status field of its
\* body; n is the number of results a dialer tick returned.
Resp(op, c, status, detail, n) ==
    [op |-> op, campaign |-> c, status |-> status, detail |-> detail, n |-> n]

\* ------------------------------------------------------ campaign lifecycle
\* predictive_ratio_x2 is twice the float predictive_ratio: 2 is 1.0, 4 is 2.0.
Config(mode, mcc, retries, ratio_x2, inicio, fin, dias) ==
    [dialer_mode |-> mode, max_concurrent_calls |-> mcc, max_retries |-> retries,
     predictive_ratio_x2 |-> ratio_x2, hora_inicio |-> inicio, hora_fin |-> fin,
     dias_semana |-> dias]

Weekdays == {1, 2, 3, 4, 5}

NewCampaign(t, cfg) ==
    [cuenta_id |-> t, estado |-> "draft", dialer_mode |-> cfg.dialer_mode,
     max_concurrent_calls |-> cfg.max_concurrent_calls, max_retries |-> cfg.max_retries,
     predictive_ratio_x2 |-> cfg.predictive_ratio_x2, hora_inicio |-> cfg.hora_inicio,
     hora_fin |-> cfg.hora_fin, dias_semana |-> cfg.dias_semana,
     total_leads |-> 0, leads_contacted |-> 0, leads_pending |-> 0]

WithConfig(row, cfg) ==
    [row EXCEPT !.dialer_mode = cfg.dialer_mode,
                !.max_concurrent_calls = cfg.max_concurrent_calls,
                !.max_retries = cfg.max_retries,
                !.predictive_ratio_x2 = cfg.predictive_ratio_x2,
                !.hora_inicio = cfg.hora_inicio,
                !.hora_fin = cfg.hora_fin,
                !.dias_semana = cfg.dias_semana]

create_campaign(c, t, cfg) ==
    /\ c \notin DOMAIN campaign
    /\ campaign' = campaign @@ (c :> NewCampaign(t, cfg))
    /\ resp' = Resp("create_campaign", c, "201", "ok", 0)
    /\ UNCHANGED <<cagent, agent, lead, call, dnc, nodes, now, tick>>

HttpStatus(outcome) ==
    IF outcome = "ok" THEN "200"
    ELSE IF outcome \in {"Campaign not found", "Agent not found in this account",
                         "Lead not found in this account", "Campaign lead not found",
                         "Disposition not found"} THEN "404"
    ELSE "400"

UpdateOutcome(c) ==
    IF c \notin DOMAIN campaign THEN "Campaign not found"
    ELSE IF campaign[c].estado = "running" THEN "Cannot update a running campaign. Pause it first."
    ELSE "ok"

update_campaign(c, cfg) ==
    /\ campaign' = IF UpdateOutcome(c) = "ok"
                   THEN [campaign EXCEPT ![c] = WithConfig(@, cfg)] ELSE campaign
    /\ resp' = Resp("update_campaign", c, HttpStatus(UpdateOutcome(c)), UpdateOutcome(c), 0)
    /\ UNCHANGED <<cagent, agent, lead, call, dnc, nodes, now, tick>>

\* delete without the check that the campaign is not running.
DeleteOutcomeWhileRunning(c) ==
    IF c \notin DOMAIN campaign THEN "Campaign not found"
    ELSE "ok"

DeleteOutcome(c) ==
    IF c \notin DOMAIN campaign THEN "Campaign not found"
    ELSE IF campaign[c].estado = "running" THEN "Cannot delete a running campaign"
    ELSE "ok"

\* db.delete(campaign): the ORM deletes the campaign's leads and assignments with
\* it; the call records that referenced them keep their row with the reference
\* set to NULL.
delete_campaign(c) ==
    LET ok == DeleteOutcome(c) = "ok"
        gone == { l \in LeadIds(lead) : lead[l].campaign_id = c }
    IN /\ campaign' = IF ok THEN [d \in DOMAIN campaign \ {c} |-> campaign[d]] ELSE campaign
       /\ cagent' = IF ok THEN { p \in cagent : p[1] # c } ELSE cagent
       /\ lead' = IF ok THEN [l \in DOMAIN lead |->
                                 IF l \in gone THEN [lead[l] EXCEPT !.campaign_id = NULL]
                                 ELSE lead[l]]
                  ELSE lead
       /\ call' = IF ok THEN [i \in DOMAIN call |->
                                 [call[i] EXCEPT
                                    !.campaign_id = IF @ = c THEN NULL ELSE @,
                                    !.campaign_lead_id = IF @ \in gone THEN NoLead ELSE @]]
                  ELSE call
       /\ resp' = Resp("delete_campaign", c,
                       IF ok THEN "204" ELSE HttpStatus(DeleteOutcome(c)), DeleteOutcome(c), 0)
       /\ UNCHANGED <<agent, dnc, nodes, now, tick>>

AgentsCount(c) == Cardinality({ a \in DOMAIN agent : <<c, a>> \in cagent })

LeadsCount(c) == CountEstado(lead, c, CampaignLeadStatus)

\* start without the check that a lead is enrolled.
StartOutcomeNoLeadCheck(c) ==
    IF c \notin DOMAIN campaign THEN "Campaign not found"
    ELSE IF campaign[c].estado \notin {"draft", "paused", "stopped"}
         THEN "Cannot start campaign in state"
    ELSE IF campaign[c].dialer_mode # "manual" /\ AgentsCount(c) = 0
         THEN "Assign at least one agent before starting"
    ELSE "ok"

StartOutcome(c) ==
    IF c \notin DOMAIN campaign THEN "Campaign not found"
    ELSE IF campaign[c].estado \notin {"draft", "paused", "stopped"}
         THEN "Cannot start campaign in state"
    ELSE IF campaign[c].dialer_mode # "manual" /\ AgentsCount(c) = 0
         THEN "Assign at least one agent before starting"
    ELSE IF LeadsCount(c) = 0 THEN "Add at least one lead before starting"
    ELSE "ok"

\* pause accepted from stopped as well.
PauseOutcomeFromStopped(c) ==
    IF c \notin DOMAIN campaign THEN "Campaign not found"
    ELSE IF campaign[c].estado \notin {"running", "stopped"} THEN "Campaign is not running"
    ELSE "ok"

PauseOutcome(c) ==
    IF c \notin DOMAIN campaign THEN "Campaign not found"
    ELSE IF campaign[c].estado # "running" THEN "Campaign is not running"
    ELSE "ok"

\* stop accepted from draft as well.
StopOutcomeFromDraft(c) ==
    IF c \notin DOMAIN campaign THEN "Campaign not found"
    ELSE IF campaign[c].estado \notin {"running", "paused", "draft"}
         THEN "Campaign is not running or paused"
    ELSE "ok"

StopOutcome(c) ==
    IF c \notin DOMAIN campaign THEN "Campaign not found"
    ELSE IF campaign[c].estado \notin {"running", "paused"}
         THEN "Campaign is not running or paused"
    ELSE "ok"

start_campaign(c) ==
    /\ campaign' = IF StartOutcome(c) = "ok"
                   THEN update_campaign_stats([campaign EXCEPT ![c].estado = "running"], lead, c)
                   ELSE campaign
    /\ resp' = Resp("start", c, HttpStatus(StartOutcome(c)), StartOutcome(c), 0)
    /\ UNCHANGED <<cagent, agent, lead, call, dnc, nodes, now, tick>>

pause_campaign(c) ==
    /\ campaign' = IF PauseOutcome(c) = "ok"
                   THEN [campaign EXCEPT ![c].estado = "paused"] ELSE campaign
    /\ resp' = Resp("pause", c, HttpStatus(PauseOutcome(c)), PauseOutcome(c), 0)
    /\ UNCHANGED <<cagent, agent, lead, call, dnc, nodes, now, tick>>

stop_campaign(c) ==
    /\ campaign' = IF StopOutcome(c) = "ok"
                   THEN [campaign EXCEPT ![c].estado = "stopped"] ELSE campaign
    /\ resp' = Resp("stop", c, HttpStatus(StopOutcome(c)), StopOutcome(c), 0)
    /\ UNCHANGED <<cagent, agent, lead, call, dnc, nodes, now, tick>>

\* --------------------------------------------------- assignment, enrollment
AssignOutcome(c, a) ==
    IF c \notin DOMAIN campaign THEN "Campaign not found"
    ELSE IF a \notin DOMAIN agent \/ agent[a].cuenta_id # campaign[c].cuenta_id
         THEN "Agent not found in this account"
    ELSE IF <<c, a>> \in cagent THEN "Agent already assigned to this campaign"
    ELSE "ok"

assign_agent_to_campaign(c, a) ==
    /\ cagent' = IF AssignOutcome(c, a) = "ok" THEN cagent \cup {<<c, a>>} ELSE cagent
    /\ resp' = Resp("assign_agent", c,
                    IF AssignOutcome(c, a) = "ok" THEN "201" ELSE HttpStatus(AssignOutcome(c, a)),
                    AssignOutcome(c, a), 0)
    /\ UNCHANGED <<campaign, agent, lead, call, dnc, nodes, now, tick>>

NewCampaignLead(c, k, p, estado) ==
    [campaign_id |-> c, lead_id |-> k, telefono |-> p, estado |-> estado, intentos |-> 0,
     ultimo_intento |-> NoTime, proximo_intento |-> NoTime, callback_at |-> NoTime,
     assigned_agent_id |-> NULL, disposition_id |-> NULL, disposition_nota |-> NULL]

Enrolled(ld, c, k) ==
    \E l \in LeadIds(ld) : ld[l].campaign_id = c /\ ld[l].lead_id = k

\* individual enrollment without the check for an existing enrollment.
AddLeadOutcomeNoDuplicateCheck(c, k) ==
    IF c \notin DOMAIN campaign THEN "Campaign not found"
    ELSE IF ContactCuenta[k] # campaign[c].cuenta_id THEN "Lead not found in this account"
    ELSE "ok"

AddLeadOutcome(c, k) ==
    IF c \notin DOMAIN campaign THEN "Campaign not found"
    ELSE IF ContactCuenta[k] # campaign[c].cuenta_id THEN "Lead not found in this account"
    ELSE IF Enrolled(lead, c, k) THEN "Lead already in this campaign"
    ELSE "ok"

add_campaign_lead(c, k, p) ==
    /\ AddLeadOutcome(c, k) = "ok" => Len(lead) < MaxLeads
    /\ lead' = IF AddLeadOutcome(c, k) = "ok"
               THEN Append(lead, NewCampaignLead(c, k, p,
                        IF IsDnc(campaign[c].cuenta_id, p) THEN "dnc" ELSE "pending"))
               ELSE lead
    /\ campaign' = IF AddLeadOutcome(c, k) = "ok"
                   THEN update_campaign_stats(campaign, lead, c) ELSE campaign
    /\ resp' = Resp("add_lead", c,
                    IF AddLeadOutcome(c, k) = "ok" THEN "201" ELSE HttpStatus(AddLeadOutcome(c, k)),
                    AddLeadOutcome(c, k), 0)
    /\ UNCHANGED <<cagent, agent, call, dnc, nodes, now, tick>>

\* The leads of the tenant in the source of a bulk enrollment.
BulkSource(c, source_id) ==
    { k \in Contacts : ContactCuenta[k] = campaign[c].cuenta_id /\ ContactBase[k] = source_id }

\* Lead has no column lote_id: the filter on it raises AttributeError.
BulkOutcome(c, source_type, source_id) ==
    IF c \notin DOMAIN campaign THEN "Campaign not found"
    ELSE IF source_type = "lote" THEN "AttributeError"
    ELSE IF source_type # "lead_base" THEN "source_type must be 'lead_base' or 'lote'"
    ELSE IF BulkSource(c, source_id) = {} THEN "No leads found in the specified source"
    ELSE "ok"

\* The contacts of order that the loop enrolls: not enrolled when the request
\* began, and with a phone in the field campo.
BulkAdded(c, campo, order) ==
    LET fresh(k) == ~Enrolled(lead, c, k) /\ ContactDatos[k][campo] # NULL
    IN SelectSeq(order, fresh)

\* order is the order in which the query returns the leads of the source.
bulk_add_campaign_leads(c, source_type, source_id, campo, order) ==
    LET out == BulkOutcome(c, source_type, source_id)
        new == BulkAdded(c, campo, order)
        row(k) == NewCampaignLead(c, k, ContactDatos[k][campo],
                      IF IsDnc(campaign[c].cuenta_id, ContactDatos[k][campo])
                      THEN "dnc" ELSE "pending")
    IN /\ out = "ok" => /\ order \in [1 .. Cardinality(BulkSource(c, source_id))
                                         -> BulkSource(c, source_id)]
                        /\ \A i, j \in DOMAIN order : order[i] = order[j] => i = j
                        /\ Len(lead) + Len(new) <= MaxLeads
       /\ out # "ok" => order = <<>>
       /\ lead' = IF out = "ok" THEN lead \o [i \in 1 .. Len(new) |-> row(new[i])] ELSE lead
       /\ campaign' = IF out = "ok" THEN update_campaign_stats(campaign, lead, c) ELSE campaign
       /\ resp' = Resp("bulk_add", c,
                       IF out = "ok" THEN "200"
                       ELSE IF out = "AttributeError" THEN "500"
                       ELSE IF out \in {"Campaign not found",
                                        "No leads found in the specified source"} THEN "404"
                       ELSE "400",
                       out, IF out = "ok" THEN Len(new) ELSE 0)
       /\ UNCHANGED <<cagent, agent, call, dnc, nodes, now, tick>>

\* ------------------------------------------------------------------- DNC
add_dnc(t, p) ==
    /\ dnc' = dnc \cup {<<t, p>>}
    /\ resp' = Resp("add_dnc", NULL,
                    IF <<t, p>> \in dnc THEN "400" ELSE "201",
                    IF <<t, p>> \in dnc THEN "Number already in DNC list" ELSE "ok", 0)
    /\ UNCHANGED <<campaign, cagent, agent, lead, call, nodes, now, tick>>

\* ----------------------------------------------------------------- agents
StatusOutcome(a, estado) ==
    IF a \notin DOMAIN agent THEN "Agent not found"
    ELSE IF estado \notin AgentStatus THEN "Invalid state"
    ELSE "ok"

update_agent_status(a, estado, reason) ==
    /\ agent' = IF StatusOutcome(a, estado) = "ok"
                THEN [agent EXCEPT ![a].estado = estado,
                                   ![a].pause_reason = IF estado = "paused" THEN reason ELSE NULL]
                ELSE agent
    /\ resp' = Resp("agent_status", NULL,
                    IF StatusOutcome(a, estado) = "ok" THEN "200"
                    ELSE IF StatusOutcome(a, estado) = "Agent not found" THEN "404" ELSE "400",
                    StatusOutcome(a, estado), 0)
    /\ UNCHANGED <<campaign, cagent, lead, call, dnc, nodes, now, tick>>

\* ------------------------------------------------------------ disposition
\* the decision table with is_final tested before the callback.
DispositionEstadoFinalFirst(disp, callback_at) ==
    IF Dispositions[disp].es_final THEN "completed"
    ELSE IF Dispositions[disp].requiere_reagendamiento /\ callback_at # NoTime THEN "scheduled"
    ELSE "contacted"

DispositionEstado(disp, callback_at) ==
    IF Dispositions[disp].requiere_reagendamiento /\ callback_at # NoTime THEN "scheduled"
    ELSE IF Dispositions[disp].es_final THEN "completed"
    ELSE IF Dispositions[disp].es_contacto THEN "contacted"
    ELSE "contacted"

DispositionOutcome(l, disp) ==
    IF l \notin LeadIds(lead) THEN "Campaign lead not found"
    ELSE IF disp \notin DispositionIds THEN "Disposition not found"
    ELSE "ok"

\* no CallRecord is ever stamped.
DispositionCallNever(l) == NoCall

\* The CallRecord the disposition is also stamped on: the current call of the
\* lead's assigned agent.
DispositionCall(l) ==
    IF lead[l].assigned_agent_id = NULL \/ lead[l].assigned_agent_id \notin DOMAIN agent
    THEN NoCall
    ELSE agent[lead[l].assigned_agent_id].current_call_id

\* The request a response answers: the path's lead and the body.
DispositionRequest(l, disp, callback_at, nota) ==
    [cl_id |-> l, disposition_id |-> disp, callback_at |-> callback_at, nota |-> nota]

set_campaign_lead_disposition(l, disp, callback_at, nota) ==
    /\ (DispositionOutcome(l, disp) = "ok" /\ DispositionCall(l) # NoCall)
           => Len(call[DispositionCall(l)].events) < MaxEvents
    /\ IF DispositionOutcome(l, disp) = "ok"
       THEN /\ lead' = [lead EXCEPT
                   ![l].disposition_id = disp,
                   ![l].disposition_nota = nota,
                   ![l].estado = DispositionEstado(disp, callback_at),
                   ![l].callback_at =
                       IF Dispositions[disp].requiere_reagendamiento /\ callback_at # NoTime
                       THEN callback_at ELSE @]
            /\ call' = IF DispositionCall(l) = NoCall THEN call
                       ELSE [call EXCEPT ![DispositionCall(l)].disposition_id = disp,
                                         ![DispositionCall(l)].disposition_nota = nota,
                                         ![DispositionCall(l)].events = Append(@, "disposition")]
            /\ campaign' = update_campaign_stats(campaign, lead, lead[l].campaign_id)
       ELSE UNCHANGED <<lead, call, campaign>>
    /\ resp' = Resp("disposition", NULL, HttpStatus(DispositionOutcome(l, disp)),
                    DispositionOutcome(l, disp), 0)
                @@ [request |-> DispositionRequest(l, disp, callback_at, nota)]
    /\ UNCHANGED <<cagent, agent, dnc, nodes, now, tick>>

\* ------------------------------------------------------------ manual call
\* manual_call's checks without the limit on attempts.
ManualOutcomeNoRetryLimit(cuenta, a, l) ==
    IF a \notin DOMAIN agent \/ agent[a].cuenta_id # cuenta \/ ~agent[a].activo
    THEN "Agent not found or inactive"
    ELSE IF agent[a].estado \notin {"available", "wrap_up"} THEN "Agent is not available"
    ELSE IF l \notin LeadIds(lead) THEN "Campaign lead not found"
    ELSE IF lead[l].campaign_id \notin DOMAIN campaign THEN "Campaign not found"
    ELSE IF IsDnc(cuenta, lead[l].telefono) THEN "Number is on DNC list"
    ELSE "originate"

\* manual_call's checks, in order, for a request made under tenant cuenta.
ManualOutcome(cuenta, a, l) ==
    IF a \notin DOMAIN agent \/ agent[a].cuenta_id # cuenta \/ ~agent[a].activo
    THEN "Agent not found or inactive"
    ELSE IF agent[a].estado \notin {"available", "wrap_up"} THEN "Agent is not available"
    ELSE IF l \notin LeadIds(lead) THEN "Campaign lead not found"
    ELSE IF lead[l].campaign_id \notin DOMAIN campaign THEN "Campaign not found"
    ELSE IF IsDnc(cuenta, lead[l].telefono) THEN "Number is on DNC list"
    ELSE IF lead[l].intentos >= campaign[lead[l].campaign_id].max_retries
         THEN "Max retries reached for this lead"
    ELSE "originate"

manual_call(cuenta, a, l, ok) ==
    LET out == ManualOutcome(cuenta, a, l) IN
    IF out = "Number is on DNC list"
    THEN [db |-> Tables(agent, [lead EXCEPT ![l].estado = "dnc"], call),
          success |-> FALSE, call_record_id |-> NoCall, message |-> out]
    ELSE IF out = "originate"
    THEN LET r == OriginateCall(Cur, cuenta, a, lead[l].telefono, lead[l].campaign_id, l, ok)
         IN [db |-> r.db, success |-> r.success, call_record_id |-> r.call_record_id,
             message |-> IF r.success THEN "Call originated successfully"
                         ELSE IF r.call_record_id = NoCall THEN "No active PBX node found"
                         ELSE "AMI error"]
    ELSE [db |-> Cur, success |-> FALSE, call_record_id |-> NoCall, message |-> out]

\* POST /campaigns/{c}/manual-call, the PBX answering ok.
make_manual_call(c, a, l, ok) ==
    IF c \notin DOMAIN campaign
    THEN /\ resp' = Resp("manual_call", c, "404", "Campaign not found", 0)
         /\ UNCHANGED <<campaign, cagent, agent, lead, call, dnc, nodes, now, tick>>
    ELSE LET r == manual_call(campaign[c].cuenta_id, a, l, ok) IN
         /\ Len(r.db.call) <= MaxCalls
         /\ agent' = r.db.agent
         /\ lead' = r.db.lead
         /\ call' = r.db.call
         /\ resp' = Resp("manual_call", c, IF r.success THEN "success" ELSE "error", r.message, 0)
         /\ UNCHANGED <<campaign, cagent, dnc, nodes, now, tick>>

\* ----------------------------------------------------- automatic dialers
\* The orders in which a query without ORDER BY may return the rows S.
Orders(S) ==
    { f \in [1 .. Cardinality(S) -> S] : \A i, j \in DOMAIN f : f[i] = f[j] => i = j }

\* The PBX's answer to each origination, by CallRecord id.
Answers == [1 .. MaxCalls -> BOOLEAN]

ProgressiveMaxNew(c) ==
    campaign[c].max_concurrent_calls - get_active_calls_count(lead, c)

\* the room of a predictive tick without the concurrency limit.
PredictiveMaxNewNoLimit(c) ==
    LET available_count == Cardinality(get_available_agents(agent, c))
        active_calls == get_active_calls_count(lead, c)
        target_calls == (available_count * campaign[c].predictive_ratio_x2) \div 2
    IN target_calls - active_calls

PredictiveMaxNew(c) ==
    LET available_count == Cardinality(get_available_agents(agent, c))
        active_calls == get_active_calls_count(lead, c)
        target_calls == (available_count * campaign[c].predictive_ratio_x2) \div 2
    IN Min(target_calls - active_calls, campaign[c].max_concurrent_calls - active_calls)

\* The progressive guards without the schedule check.
ProgressiveGateNoSchedule(c) ==
    IF campaign[c].estado # "running" THEN "not_running"
    ELSE IF get_available_agents(agent, c) = {} THEN "no_agents"
    ELSE IF ProgressiveMaxNew(c) <= 0 THEN "no_room"
    ELSE "loop"

\* Where a tick leaves its guards: the early return taken, or "loop".
ProgressiveGate(c) ==
    IF campaign[c].estado # "running" THEN "not_running"
    ELSE IF ~is_campaign_in_schedule(campaign[c], now) THEN "out_of_schedule"
    ELSE IF get_available_agents(agent, c) = {} THEN "no_agents"
    ELSE IF ProgressiveMaxNew(c) <= 0 THEN "no_room"
    ELSE "loop"

\* the predictive guards without the check that the campaign is running.
PredictiveGateNotRunning(c) ==
    IF ~is_campaign_in_schedule(campaign[c], now) THEN "out_of_schedule"
    ELSE IF get_available_agents(agent, c) = {} THEN "no_agents"
    ELSE IF PredictiveMaxNew(c) <= 0 THEN "no_room"
    ELSE "loop"

PredictiveGate(c) ==
    IF campaign[c].estado # "running" THEN "not_running"
    ELSE IF ~is_campaign_in_schedule(campaign[c], now) THEN "out_of_schedule"
    ELSE IF get_available_agents(agent, c) = {} THEN "no_agents"
    ELSE IF PredictiveMaxNew(c) <= 0 THEN "no_room"
    ELSE "loop"

MarkDnc(d, l) == Tables(d.agent, [d.lead EXCEPT ![l].estado = "dnc"], d.call)

LoopResult(d, n, over) == [db |-> d, n |-> n, over |-> over]

\* The for loop of run_progressive_dialer over agents = available[:max_new];
\* n counts the results; over says the loop needs more CallRecords than the
\* model holds.
RECURSIVE ProgressiveLoop(_, _, _, _, _)
ProgressiveLoop(d, c, agents, outs, n) ==
    IF agents = <<>> THEN LoopResult(d, n, FALSE)
    ELSE LET l == get_next_lead(d.lead, c, now) IN
         IF l = NoLead THEN LoopResult(d, n, FALSE)
         ELSE IF IsDnc(campaign[c].cuenta_id, d.lead[l].telefono)
         THEN ProgressiveLoop(MarkDnc(d, l), c, Tail(agents), outs, n)
         ELSE IF Len(d.call) >= MaxCalls THEN LoopResult(d, n, TRUE)
         ELSE ProgressiveLoop(
                  OriginateCall(d, campaign[c].cuenta_id, Head(agents), d.lead[l].telefono,
                                c, l, outs[Len(d.call) + 1]).db,
                  c, Tail(agents), outs, n + 1)

\* The for loop of run_predictive_dialer: k iterations left, agents cycled by
\* agent_idx.
RECURSIVE PredictiveLoop(_, _, _, _, _, _, _)
PredictiveLoop(d, c, agents, agent_idx, k, outs, n) ==
    IF k <= 0 THEN LoopResult(d, n, FALSE)
    ELSE LET l == get_next_lead(d.lead, c, now) IN
         IF l = NoLead THEN LoopResult(d, n, FALSE)
         ELSE IF IsDnc(campaign[c].cuenta_id, d.lead[l].telefono)
         THEN PredictiveLoop(MarkDnc(d, l), c, agents, agent_idx, k - 1, outs, n)
         ELSE IF Len(d.call) >= MaxCalls THEN LoopResult(d, n, TRUE)
         ELSE PredictiveLoop(
                  OriginateCall(d, campaign[c].cuenta_id,
                                agents[(agent_idx % Len(agents)) + 1], d.lead[l].telefono,
                                c, l, outs[Len(d.call) + 1]).db,
                  c, agents, agent_idx + 1, k - 1, outs, n + 1)

Take(seq, n) == SubSeq(seq, 1, Min(n, Len(seq)))

\* One whole progressive tick on campaign c; order is the order in which the
\* available agents were returned, outs the PBX's answers.
run_progressive_dialer(c, order, outs) ==
    /\ c \in DOMAIN campaign
    /\ LET r == IF ProgressiveGate(c) = "loop"
                THEN ProgressiveLoop(Cur, c, Take(order, ProgressiveMaxNew(c)), outs, 0)
                ELSE LoopResult(Cur, 0, FALSE)
       IN /\ ~r.over
          /\ agent' = r.db.agent
          /\ lead' = r.db.lead
          /\ call' = r.db.call
          /\ resp' = Resp("progressive", c, "returned", ProgressiveGate(c), r.n)
    /\ UNCHANGED <<campaign, cagent, dnc, nodes, now, tick>>

run_predictive_dialer(c, order, outs) ==
    /\ c \in DOMAIN campaign
    /\ LET r == IF PredictiveGate(c) = "loop"
                THEN PredictiveLoop(Cur, c, order, 0, PredictiveMaxNew(c), outs, 0)
                ELSE LoopResult(Cur, 0, FALSE)
       IN /\ ~r.over
          /\ agent' = r.db.agent
          /\ lead' = r.db.lead
          /\ call' = r.db.call
          /\ resp' = Resp("predictive", c, "returned", PredictiveGate(c), r.n)
    /\ UNCHANGED <<campaign, cagent, dnc, nodes, now, tick>>

\* ------------------------------------------------------------------ clock
AdvanceClock ==
    /\ now < MaxClock
    /\ now' = now + 1
    /\ UNCHANGED <<campaign, cagent, agent, lead, call, dnc, nodes, resp, tick>>

\* ------------------------------------------------- one request at a time
NewAgent(t) ==
    [cuenta_id |-> t, activo |-> TRUE, estado |-> "offline", pause_reason |-> NULL,
     current_call_id |-> NoCall]

\* Campaign configurations: a manual campaign with a one-instant window, a
\* progressive one limited to one call, a predictive one dialing two per agent.
Configs ==
    { Config("manual", 1, 1, 2, 0, 0, Weekdays),
      Config("progressive", 1, 2, 2, NoTime, NoTime, {}),
      Config("predictive", 2, 2, 4, NoTime, NoTime, {}) }

\* Dialing, one request at a time.  At start-up tenant t1 has campaign c1 with
\* agent a1 assigned, tenant t2 has campaign c2; nothing is enrolled yet.
Init ==
    /\ \E e \in {"draft", "running"}, cfg \in Configs :
           campaign = ("c1" :> [NewCampaign("t1", cfg) EXCEPT !.estado = e])
                      @@ ("c2" :> [NewCampaign("t2", Config("manual", 1, 1, 2, NoTime, NoTime, {}))
                                     EXCEPT !.estado = "running"])
    /\ cagent = {<<"c1", "a1">>}
    /\ agent = ("a1" :> [NewAgent("t1") EXCEPT !.estado = "available"])
    /\ lead = <<>>
    /\ call = <<>>
    /\ dnc = {}
    /\ nodes = Tenants
    /\ now = 0
    /\ resp = Resp("init", NULL, "200", "ok", 0)
    /\ tick = <<>>

Next ==
    \/ add_campaign_lead("c1", "k1", "p1")
    \/ add_campaign_lead("c2", "k3", "p1")
    \/ \E t \in Tenants : add_dnc(t, "p1")
    \/ \E e \in {"available", "on_call", "bogus"} : update_agent_status("a1", e, NULL)
    \/ \E l \in 1 .. MaxLeads, ok \in BOOLEAN : make_manual_call("c1", "a1", l, ok)
    \/ \E outs \in Answers :
           \E order \in Orders(get_available_agents(agent, "c1")) :
               run_progressive_dialer("c1", order, outs)
    \/ \E outs \in Answers :
           \E order \in Orders(get_available_agents(agent, "c1")) :
               run_predictive_dialer("c1", order, outs)

Spec == Init /\ [][Next]_vars

\* ------------------------------------------------------ campaign lifecycle
\* Every operation that reads or writes a campaign's state, one request at a
\* time, on campaign c1 as an earlier run left it (completed is written only
\* from outside this service); c2 does not exist.
InitLife ==
    /\ \E e \in {"draft", "completed"}, cfg \in Configs :
           campaign = ("c1" :> [NewCampaign("t1", cfg) EXCEPT !.estado = e])
    /\ cagent = {}
    /\ agent = ("a1" :> [NewAgent("t1") EXCEPT !.estado = "available"])
    /\ lead = <<>>
    /\ call = <<>>
    /\ dnc = {}
    /\ nodes = Tenants
    /\ now = 0
    /\ resp = Resp("init", NULL, "200", "ok", 0)
    /\ tick = <<>>

NextLife ==
    \/ create_campaign("c2", "t1", Config("manual", 1, 1, 2, NoTime, NoTime, {}))
    \/ \E cfg \in Configs : update_campaign("c1", cfg)
    \/ \E c \in {"c1", "c2"} : start_campaign(c)
    \/ \E c \in {"c1", "c2"} : pause_campaign(c)
    \/ \E c \in {"c1", "c2"} : stop_campaign(c)
    \/ assign_agent_to_campaign("c1", "a1")
    \/ add_campaign_lead("c1", "k1", "p1")
    \/ \E l \in 1 .. MaxLeads : set_campaign_lead_disposition(l, "d_final", NoTime, NULL)
    \/ \E l \in 1 .. MaxLeads, ok \in BOOLEAN : make_manual_call("c1", "a1", l, ok)
    \/ \E outs \in Answers :
           \E order \in Orders(get_available_agents(agent, "c1")) :
               run_progressive_dialer("c1", order, outs)
    \/ \E outs \in Answers :
           \E order \in Orders(get_available_agents(agent, "c1")) :
               run_predictive_dialer("c1", order, outs)

SpecLife == InitLife /\ [][NextLife]_vars

\* ------------------------------------------------------ interleaved ticks
\* Dialer ticks run by concurrent workers, each on its own session, every
\* database round trip a step of its own.
Tickers == {"s1", "s2"}

IdleFrame ==
    [pc |-> "idle", kind |-> NULL, campaign |-> NULL, gate |-> NULL, agents |-> <<>>,
     agent_idx |-> 0, i |-> 0, bound |-> 0, lead |-> NoLead, intentos |-> 0,
     call |-> NoCall, n |-> 0]

TickGate(kind, c) == IF kind = "progressive" THEN ProgressiveGate(c) ELSE PredictiveGate(c)

\* The agent the current iteration dials for.
TickAgent(f) ==
    IF f.kind = "progressive" THEN f.agents[f.i + 1]
    ELSE f.agents[(f.agent_idx % Len(f.agents)) + 1]

\* The tick's guards and the reads before its loop.
TickBegin(s, kind, c, order) ==
    /\ tick[s].pc = "idle"
    /\ c \in DOMAIN campaign
    /\ tick' = [tick EXCEPT ![s] =
           IF TickGate(kind, c) # "loop"
           THEN [IdleFrame EXCEPT !.pc = "done", !.kind = kind, !.campaign = c,
                                  !.gate = TickGate(kind, c)]
           ELSE [IdleFrame EXCEPT
                    !.pc = "select", !.kind = kind, !.campaign = c, !.gate = "loop",
                    !.agents = IF kind = "progressive"
                               THEN Take(order, ProgressiveMaxNew(c)) ELSE order,
                    !.bound = IF kind = "progressive"
                              THEN Len(Take(order, ProgressiveMaxNew(c)))
                              ELSE PredictiveMaxNew(c)]]
    /\ UNCHANGED <<campaign, cagent, agent, lead, call, dnc, nodes, now, resp>>

\* Top of the loop: get_next_lead, or the end of the loop.
TickSelect(s) ==
    LET f == tick[s]
        l == get_next_lead(lead, f.campaign, now)
    IN /\ f.pc = "select"
       /\ tick' = [tick EXCEPT ![s] =
              IF f.i >= f.bound \/ l = NoLead THEN [f EXCEPT !.pc = "done"]
              ELSE [f EXCEPT !.pc = "dial", !.lead = l, !.intentos = lead[l].intentos]]
       /\ UNCHANGED <<campaign, cagent, agent, lead, call, dnc, nodes, now, resp>>

\* The DNC check, then originate_call up to its commit.
TickDial(s) ==
    LET f == tick[s]
        cuenta == campaign[f.campaign].cuenta_id
    IN /\ f.pc = "dial"
       /\ IF IsDnc(cuenta, lead[f.lead].telefono)
          THEN /\ lead' = [lead EXCEPT ![f.lead].estado = "dnc"]
               /\ tick' = [tick EXCEPT ![s] =
                      [f EXCEPT !.pc = "select", !.i = @ + 1, !.lead = NoLead]]
               /\ UNCHANGED <<agent, call>>
          ELSE IF ResolveNode(cuenta) = NULL
          THEN /\ tick' = [tick EXCEPT ![s] =
                      [f EXCEPT !.pc = "select", !.i = @ + 1, !.agent_idx = @ + 1,
                                !.lead = NoLead, !.n = @ + 1]]
               /\ UNCHANGED <<agent, lead, call>>
          ELSE LET d == OriginateCommit(Cur, cuenta, TickAgent(f), lead[f.lead].telefono,
                                        f.campaign, f.lead, f.intentos)
               IN /\ Len(call) < MaxCalls
                  /\ agent' = d.agent
                  /\ lead' = d.lead
                  /\ call' = d.call
                  /\ tick' = [tick EXCEPT ![s] = [f EXCEPT !.pc = "answer", !.call = Len(d.call)]]
       /\ UNCHANGED <<campaign, cagent, dnc, nodes, now, resp>>

\* The PBX's answer to the originate, and what originate_call writes after it.
TickAnswer(s, ok) ==
    LET f == tick[s]
        d == IF ok THEN OriginateSuccess(Cur, f.call) ELSE OriginateFailure(Cur, f.call)
    IN /\ f.pc = "answer"
       /\ agent' = d.agent
       /\ lead' = d.lead
       /\ call' = d.call
       /\ tick' = [tick EXCEPT ![s] =
              [f EXCEPT !.pc = "select", !.i = @ + 1, !.agent_idx = @ + 1,
                        !.lead = NoLead, !.call = NoCall, !.n = @ + 1]]
       /\ UNCHANGED <<campaign, cagent, dnc, nodes, now, resp>>

\* The tick returns its n results to its caller.
TickReturn(s) ==
    /\ tick[s].pc = "done"
    /\ tick' = [tick EXCEPT ![s] = IdleFrame]
    /\ UNCHANGED <<campaign, cagent, agent, lead, call, dnc, nodes, now, resp>>

TickConfigs ==
    { Config("progressive", 1, 2, 2, 0, 0, {}),
      Config("predictive", 2, 2, 4, NoTime, NoTime, {}) }

\* Campaign c1 running or paused, agent a1 assigned and available, two leads
\* pending.
InitTicks ==
    /\ \E e \in {"running", "paused"}, cfg \in TickConfigs :
           campaign = ("c1" :> [NewCampaign("t1", cfg) EXCEPT
                                   !.estado = e, !.total_leads = 2, !.leads_pending = 2])
    /\ cagent = {<<"c1", "a1">>}
    /\ agent = ("a1" :> [NewAgent("t1") EXCEPT !.estado = "available"])
    /\ lead = << NewCampaignLead("c1", "k1", "p1", "pending"),
                 NewCampaignLead("c1", "k2", "p2", "pending") >>
    /\ call = <<>>
    /\ dnc \in {{}, {<<"t1", "p1">>}}
    /\ nodes = Tenants
    /\ now = 0
    /\ resp = Resp("init", NULL, "200", "ok", 0)
    /\ tick = [s \in Tickers |-> IdleFrame]

NextTicks ==
    \/ \E s \in Tickers :
           \E order \in Orders(get_available_agents(agent, "c1")) :
               TickBegin(s, campaign["c1"].dialer_mode, "c1", order)
    \/ \E s \in Tickers : TickSelect(s)
    \/ \E s \in Tickers : TickDial(s)
    \/ \E s \in Tickers, ok \in BOOLEAN : TickAnswer(s, ok)
    \/ \E s \in Tickers : TickReturn(s)
    \/ start_campaign("c1")
    \/ pause_campaign("c1")
    \/ stop_campaign("c1")
    \/ AdvanceClock

SpecTicks == InitTicks /\ [][NextTicks]_vars

\* ------------------------------------------------ racing lifecycle requests
\* start, pause and stop served by concurrent workers: each handler reads the
\* campaign and checks it, then writes the new state and commits.
LifecycleOps == {"start", "pause", "stop"}

LifecycleOutcome(op, c) ==
    IF op = "start" THEN StartOutcome(c)
    ELSE IF op = "pause" THEN PauseOutcome(c)
    ELSE StopOutcome(c)

LifecycleTarget(op) ==
    IF op = "start" THEN "running" ELSE IF op = "pause" THEN "paused" ELSE "stopped"

\* The handler's query and checks; a refused request raises at once.
LifecycleBegin(s, op, c) ==
    /\ tick[s].pc = "idle"
    /\ tick' = [tick EXCEPT ![s] =
           [IdleFrame EXCEPT !.pc = IF LifecycleOutcome(op, c) = "ok" THEN "commit" ELSE "done",
                             !.kind = op, !.campaign = c, !.gate = LifecycleOutcome(op, c)]]
    /\ UNCHANGED <<campaign, cagent, agent, lead, call, dnc, nodes, now, resp>>

\* The handler's assignment to campaign.estado and its commit: an UPDATE of
\* the columns the session changed, whatever the row holds by now.
LifecycleCommit(s) ==
    LET f == tick[s] IN
    /\ f.pc = "commit"
    /\ campaign' =
           IF f.kind = "start"
           THEN update_campaign_stats(
                    [campaign EXCEPT ![f.campaign].estado = LifecycleTarget(f.kind)],
                    lead, f.campaign)
           ELSE [campaign EXCEPT ![f.campaign].estado = LifecycleTarget(f.kind)]
    /\ tick' = [tick EXCEPT ![s] = [f EXCEPT !.pc = "done"]]
    /\ UNCHANGED <<cagent, agent, lead, call, dnc, nodes, now, resp>>

\* The response leaves the handler.
LifecycleReturn(s) ==
    LET f == tick[s] IN
    /\ f.pc = "done"
    /\ f.kind \in LifecycleOps
    /\ tick' = [tick EXCEPT ![s] = IdleFrame]
    /\ resp' = Resp(f.kind, f.campaign, HttpStatus(f.gate), f.gate, 0)
    /\ UNCHANGED <<campaign, cagent, agent, lead, call, dnc, nodes, now>>

\* Campaign c1 with a lead enrolled and an agent assigned, draft or running.
InitRace ==
    /\ \E e \in {"draft", "running", "completed"}, cfg \in Configs :
           campaign = ("c1" :> [NewCampaign("t1", cfg) EXCEPT
                                   !.estado = e, !.total_leads = 1, !.leads_pending = 1])
    /\ cagent = {<<"c1", "a1">>}
    /\ agent = ("a1" :> [NewAgent("t1") EXCEPT !.estado = "available"])
    /\ lead = << NewCampaignLead("c1", "k1", "p1", "pending") >>
    /\ call = <<>>
    /\ dnc = {}
    /\ nodes = Tenants
    /\ now = 0
    /\ resp = Resp("init", NULL, "200", "ok", 0)
    /\ tick = [s \in Tickers |-> IdleFrame]

NextRace ==
    \/ \E s \in Tickers, op \in LifecycleOps : LifecycleBegin(s, op, "c1")
    \/ \E s \in Tickers : LifecycleCommit(s)
    \/ \E s \in Tickers : LifecycleReturn(s)

SpecRace == InitRace /\ [][NextRace]_vars

\* ------------------------------------------------------ edit and deletion
\* Edits and deletions of campaigns in every state of their lifecycle, with
\* leads and agents attached.
InitEdit ==
    /\ \E e \in CampaignStatus, cfg \in Configs :
           campaign = ("c1" :> [NewCampaign("t1", cfg) EXCEPT
                                   !.estado = e, !.total_leads = 1, !.leads_pending = 1])
    /\ cagent = {<<"c1", "a1">>}
    /\ agent = ("a1" :> [NewAgent("t1") EXCEPT !.estado = "available"])
    /\ lead = <<NewCampaignLead("c1", "k1", "p1", "pending")>>
    /\ call = <<>>
    /\ dnc = {}
    /\ nodes = Tenants
    /\ now = 0
    /\ resp = Resp("init", NULL, "200", "ok", 0)
    /\ tick = <<>>

EditCampaigns == {"c1", "c2"}

NextEdit ==
    \/ create_campaign("c2", "t1", Config("manual", 1, 1, 2, NoTime, NoTime, {}))
    \/ \E c \in EditCampaigns, cfg \in Configs : update_campaign(c, cfg)
    \/ \E c \in EditCampaigns : delete_campaign(c)
    \/ \E c \in EditCampaigns : start_campaign(c)
    \/ \E c \in EditCampaigns : pause_campaign(c)
    \/ \E c \in EditCampaigns : stop_campaign(c)
    \/ assign_agent_to_campaign("c2", "a1")
    \/ add_campaign_lead("c2", "k2", "p2")

SpecEdit == InitEdit /\ [][NextEdit]_vars

\* ------------------------------------------------------------ dispositions
\* Agents' dispositions on the leads of a running campaign that is being dialed.
DispConfigs ==
    { Config("progressive", 2, 1, 2, NoTime, NoTime, {}),
      Config("predictive", 2, 1, 4, NoTime, NoTime, {}) }

Notas == {NULL, "n1"}

\* Callback times of a request: none, now, later.
DispCallbacks == {NoTime, 0, MaxClock}

InitDisp ==
    /\ \E cfg \in DispConfigs :
           campaign = ("c1" :> [NewCampaign("t1", cfg) EXCEPT
                                   !.estado = "running", !.total_leads = 1, !.leads_pending = 1])
    /\ cagent = {<<"c1", "a1">>}
    /\ agent = ("a1" :> [NewAgent("t1") EXCEPT !.estado = "available"])
    /\ lead = << NewCampaignLead("c1", "k1", "p1", "pending") >>
    /\ call = <<>>
    /\ dnc = {}
    /\ nodes = Tenants
    /\ now = 0
    /\ resp = Resp("init", NULL, "200", "ok", 0)
    /\ tick = <<>>

NextDisp ==
    \/ \E l \in LeadIds(lead), disp \in DispositionIds,
          callback_at \in DispCallbacks, nota \in Notas :
           set_campaign_lead_disposition(l, disp, callback_at, nota)
    \/ \E l \in 1 .. MaxLeads, disp \in {"d_open", "d_none"} :
           set_campaign_lead_disposition(l, disp, NoTime, NULL)
    \/ \E l \in 1 .. MaxLeads, ok \in BOOLEAN : make_manual_call("c1", "a1", l, ok)
    \/ \E outs \in Answers :
           \E order \in Orders(get_available_agents(agent, "c1")) :
               run_progressive_dialer("c1", order, outs)
    \/ \E outs \in Answers :
           \E order \in Orders(get_available_agents(agent, "c1")) :
               run_predictive_dialer("c1", order, outs)

SpecDisp == InitDisp /\ [][NextDisp]_vars

\* ------------------------------------------------------------ lead queue
\* get_next_lead applied to lead tables of two campaigns with leads in every
\* state, with and without callback and retry times.
QueueRow(c, estado, intentos, callback_at, proximo_intento) ==
    [NewCampaignLead(c, "k1", "p1", estado) EXCEPT
        !.intentos = intentos, !.callback_at = callback_at,
        !.proximo_intento = proximo_intento]

QueueRows ==
    { QueueRow("c1", e, 0, NoTime, NoTime) : e \in {"pending", "dnc", "abandoned"} }
    \cup { QueueRow("c1", e, 1, NoTime, NoTime) : e \in {"dialing", "contacted", "completed"} }
    \cup { QueueRow("c1", "scheduled", 1, t, NoTime) : t \in 0 .. MaxClock }
    \cup { QueueRow("c1", e, 1, NoTime, t) : e \in {"no_answer", "busy", "failed"},
                                             t \in {NoTime} \cup (0 .. MaxClock) }
    \cup { QueueRow("c1", e, 2, NoTime, 0) : e \in {"no_answer", "busy", "failed"} }
    \cup { QueueRow("c2", "pending", 0, NoTime, NoTime),
           QueueRow("c2", "scheduled", 1, 0, NoTime),
           QueueRow("c2", "failed", 1, NoTime, 0) }

\* The contact each row of the table enrolls: a different one per row.
QueueContacts == <<"k1", "k2", "k3">>

InitQueue ==
    /\ campaign = [c \in {"c1", "c2"} |->
                      [NewCampaign("t1", Config("progressive", 1, 2, 2, NoTime, NoTime, {}))
                          EXCEPT !.estado = "running"]]
    /\ cagent = {}
    /\ agent = <<>>
    /\ \E rows \in [1 .. MaxLeads -> QueueRows] :
           lead = [i \in 1 .. MaxLeads |-> [rows[i] EXCEPT !.lead_id = QueueContacts[i]]]
    /\ call = <<>>
    /\ dnc = {}
    /\ nodes = Tenants
    /\ now \in 0 .. MaxClock
    /\ resp = Resp("init", NULL, "200", "ok", 0)
    /\ tick = <<>>

\* One call of get_next_lead for campaign c; the response carries the lead returned.
SelectNext(c) ==
    /\ resp' = Resp("get_next_lead", c, "returned", "ok", get_next_lead(lead, c, now))
    /\ UNCHANGED <<campaign, cagent, agent, lead, call, dnc, nodes, now, tick>>

NextQueue == \E c \in DOMAIN campaign : SelectNext(c)

SpecQueue == InitQueue /\ [][NextQueue]_vars

\* ------------------------------------------------------------ one worker
\* Originations of a single worker, the PBX round trip a step of its own:
\* dialer ticks and manual calls on one campaign, one after the other.
Worker == "s1"

SoloConfigs ==
    { Config("progressive", 1, 2, 2, NoTime, NoTime, {}),
      Config("predictive", 2, 2, 4, NoTime, NoTime, {}) }

InitSolo ==
    /\ \E cfg \in SoloConfigs :
           campaign = ("c1" :> [NewCampaign("t1", cfg) EXCEPT
                                   !.estado = "running", !.total_leads = 2, !.leads_pending = 2])
    /\ cagent = {<<"c1", "a1">>}
    /\ agent = ("a1" :> [NewAgent("t1") EXCEPT !.estado = "available"])
    /\ lead = << NewCampaignLead("c1", "k1", "p1", "pending"),
                 NewCampaignLead("c1", "k2", "p2", "pending") >>
    /\ call = <<>>
    /\ dnc \in {{}, {<<"t1", "p1">>}}
    /\ nodes \in {Tenants, {}}
    /\ now = 0
    /\ resp = Resp("init", NULL, "200", "ok", 0)
    /\ tick = (Worker :> IdleFrame)

NextSolo ==
    \/ \E order \in Orders(get_available_agents(agent, "c1")) :
           TickBegin(Worker, campaign["c1"].dialer_mode, "c1", order)
    \/ TickSelect(Worker)
    \/ TickDial(Worker)
    \/ \E ok \in BOOLEAN : TickAnswer(Worker, ok)
    \/ TickReturn(Worker)
    \/ \E l \in 1 .. MaxLeads, ok \in BOOLEAN :
           tick[Worker].pc = "idle" /\ make_manual_call("c1", "a1", l, ok)
    \/ tick[Worker].pc = "idle" /\ update_agent_status("a1", "available", NULL)

SpecSolo == InitSolo /\ [][NextSolo]_vars

\* ------------------------------------------------------------ enrollment
\* Two campaigns of one tenant enrolling the same contacts, one at a time and
\* in bulk, and dispositions on the enrolled leads.
EnrollCampaigns == {"c1", "c2"}

InitEnroll ==
    /\ campaign = [c \in EnrollCampaigns |->
                      NewCampaign("t1", Config("manual", 1, 1, 2, NoTime, NoTime, {}))]
    /\ cagent = {}
    /\ agent = ("a1" :> [NewAgent("t1") EXCEPT !.estado = "available"])
    /\ lead = <<>>
    /\ call = <<>>
    /\ dnc \in {{<<"t2", "p2">>}, {<<"t1", "p1">>, <<"t2", "p2">>}}
    /\ nodes = Tenants
    /\ now = 0
    /\ resp = Resp("init", NULL, "200", "ok", 0)
    /\ tick = <<>>

NextEnroll ==
    \/ \E c \in EnrollCampaigns, k \in Contacts : add_campaign_lead(c, k, ContactDatos[k].tel)
    \/ \E c \in EnrollCampaigns, campo \in {"tel", "movil"} :
           \E order \in Orders(BulkSource(c, "b1")) :
               bulk_add_campaign_leads(c, "lead_base", "b1", campo, order)
    \/ \E c \in EnrollCampaigns, source_type \in {"lote", "otro"} :
           bulk_add_campaign_leads(c, source_type, "b1", "tel", <<>>)
    \/ \E c \in EnrollCampaigns : bulk_add_campaign_leads(c, "lead_base", "b2", "tel", <<>>)
    \/ \E l \in LeadIds(lead) : set_campaign_lead_disposition(l, "d_final", NoTime, NULL)

SpecEnroll == InitEnroll /\ [][NextEnroll]_vars

\* ------------------------------------------------------------ whole ticks
\* Dialer ticks, each run to completion, on a running campaign with two agents
\* and two leads, some of them already dialing or on the DNC list.
BatchConfigs ==
    { Config("progressive", 1, 2, 2, NoTime, NoTime, {}),
      Config("progressive", 2, 2, 2, NoTime, NoTime, {}),
      Config("predictive", 2, 2, 3, NoTime, NoTime, {}),
      Config("predictive", 2, 2, 4, NoTime, NoTime, {}) }

InitBatch ==
    /\ \E cfg \in BatchConfigs :
           campaign = ("c1" :> [NewCampaign("t1", cfg) EXCEPT
                                   !.estado = "running", !.total_leads = 2, !.leads_pending = 2])
    /\ cagent = {<<"c1", "a1">>, <<"c1", "a2">>}
    /\ \E e \in {"available", "offline"} :
           agent = ("a1" :> [NewAgent("t1") EXCEPT !.estado = "available"])
                   @@ ("a2" :> [NewAgent("t1") EXCEPT !.estado = e])
    /\ \E e \in {"pending", "dialing"} :
           lead = << NewCampaignLead("c1", "k1", "p1", "pending"),
                     [NewCampaignLead("c1", "k2", "p2", e) EXCEPT
                         !.intentos = IF e = "dialing" THEN 1 ELSE 0] >>
    /\ call = <<>>
    /\ dnc \in {{}, {<<"t1", "p1">>}}
    /\ nodes = Tenants
    /\ now = 0
    /\ resp = Resp("init", NULL, "200", "ok", 0)
    /\ tick = <<>>

NextBatch ==
    \/ \E outs \in Answers :
           \E order \in Orders(get_available_agents(agent, "c1")) :
               run_progressive_dialer("c1", order, outs)
    \/ \E outs \in Answers :
           \E order \in Orders(get_available_agents(agent, "c1")) :
               run_predictive_dialer("c1", order, outs)
    \/ \E a \in DOMAIN agent : update_agent_status(a, "available", NULL)
    \/ add_dnc("t1", "p2")

SpecBatch == InitBatch /\ [][NextBatch]_vars

\* ------------------------------------------------------------ manual calls
\* Manual calls on a running campaign that allows one attempt per lead, asked
\* for existing, inactive and unknown agents and for existing and unknown leads.
ManualAgents == {"a1", "a2", "a9"}

InitManual ==
    /\ campaign = ("c1" :> [NewCampaign("t1", Config("manual", 1, 1, 2, NoTime, NoTime, {}))
                               EXCEPT !.estado = "running", !.total_leads = 2,
                                      !.leads_pending = 2])
    /\ cagent = {<<"c1", "a1">>, <<"c1", "a2">>}
    /\ agent = ("a1" :> [NewAgent("t1") EXCEPT !.estado = "available"])
               @@ ("a2" :> [NewAgent("t1") EXCEPT !.estado = "available", !.activo = FALSE])
    /\ lead = << NewCampaignLead("c1", "k1", "p1", "pending"),
                 NewCampaignLead("c1", "k2", "p2", "pending") >>
    /\ call = <<>>
    /\ dnc \in {{}, {<<"t1", "p2">>}}
    /\ nodes = Tenants
    /\ now = 0
    /\ resp = Resp("init", NULL, "200", "ok", 0)
    /\ tick = <<>>

NextManual ==
    \/ \E a \in ManualAgents, l \in 1 .. MaxLeads + 1, ok \in BOOLEAN :
           make_manual_call("c1", a, l, ok)
    \/ \E e \in {"available", "wrap_up", "paused"} : update_agent_status("a1", e, NULL)
    \/ add_dnc("t1", "p1")

SpecManual == InitManual /\ [][NextManual]_vars

\* ------------------------------------------------------------ ended calls
\* A disposition request served while a dialer tick is running: the handler's
\* reads and its commit are separate steps, on a session of its own.
Handler == "h1"

\* The handler's reads: the lead, the disposition, the lead's agent and that
\* agent's current call.
DispositionBegin(s, l, disp) ==
    /\ tick[s].pc = "idle"
    /\ DispositionOutcome(l, disp) = "ok"
    /\ tick' = [tick EXCEPT ![s] =
           [IdleFrame EXCEPT !.pc = "commit", !.kind = "disposition",
                             !.campaign = lead[l].campaign_id, !.gate = disp,
                             !.lead = l, !.call = DispositionCall(l)]]
    /\ UNCHANGED <<campaign, cagent, agent, lead, call, dnc, nodes, now, resp>>

\* update_campaign_stats and the commit: the UPDATEs of the columns the handler
\* assigned, on the rows as they are by then, and the INSERT of the event.
DispositionCommit(s) ==
    LET f == tick[s] IN
    /\ f.pc = "commit" /\ f.kind = "disposition"
    /\ f.call # NoCall => Len(call[f.call].events) < MaxEvents
    /\ lead' = [lead EXCEPT ![f.lead].disposition_id = f.gate,
                            ![f.lead].disposition_nota = NULL,
                            ![f.lead].estado = DispositionEstado(f.gate, NoTime)]
    /\ call' = IF f.call = NoCall THEN call
               ELSE [call EXCEPT ![f.call].disposition_id = f.gate,
                                 ![f.call].disposition_nota = NULL,
                                 ![f.call].events = Append(@, "disposition")]
    /\ campaign' = update_campaign_stats(campaign, lead, f.campaign)
    /\ tick' = [tick EXCEPT ![s] = IdleFrame]
    /\ resp' = Resp("disposition", NULL, "200", "ok", 0)
                   @@ [request |-> DispositionRequest(f.lead, f.gate, NoTime, NULL)]
    /\ UNCHANGED <<cagent, agent, dnc, nodes, now>>

InitEnded ==
    /\ \E cfg \in SoloConfigs :
           campaign = ("c1" :> [NewCampaign("t1", cfg) EXCEPT
                                   !.estado = "running", !.total_leads = 1, !.leads_pending = 1])
    /\ cagent = {<<"c1", "a1">>}
    /\ agent = ("a1" :> [NewAgent("t1") EXCEPT !.estado = "available"])
    /\ lead = << NewCampaignLead("c1", "k1", "p1", "pending") >>
    /\ call = <<>>
    /\ dnc = {}
    /\ nodes = Tenants
    /\ now = 0
    /\ resp = Resp("init", NULL, "200", "ok", 0)
    /\ tick = (Worker :> IdleFrame) @@ (Handler :> IdleFrame)

NextEnded ==
    \/ \E order \in Orders(get_available_agents(agent, "c1")) :
           TickBegin(Worker, campaign["c1"].dialer_mode, "c1", order)
    \/ TickSelect(Worker)
    \/ TickDial(Worker)
    \/ \E ok \in BOOLEAN : TickAnswer(Worker, ok)
    \/ TickReturn(Worker)
    \/ \E l \in LeadIds(lead), disp \in {"d_open", "d_final"} : DispositionBegin(Handler, l, disp)
    \/ DispositionCommit(Handler)
    \/ \E e \in {"available", "paused"} : update_agent_status("a1", e, "break")

SpecEnded == InitEnded /\ [][NextEnded]_vars

\* ------------------------------------------------------------ configuration
\* Request bodies of campaign creation and edit: the configurations above, one
\* with no concurrent call allowed and one with a predictive ratio of 0.5.
RequestConfigs ==
    Configs \cup { Config("progressive", 0, 2, 2, NoTime, NoTime, {}),
                   Config("predictive", 2, 2, 1, NoTime, NoTime, {}) }

\* CampaignCreate and CampaignUpdate declare the two fields by type only.
SchemaAccepts(cfg) ==
    /\ cfg.max_concurrent_calls \in Int
    /\ cfg.predictive_ratio_x2 \in Int

InitConfig ==
    /\ \E e \in {"draft", "paused"}, cfg \in Configs :
           campaign = ("c1" :> [NewCampaign("t1", cfg) EXCEPT !.estado = e])
    /\ cagent = {<<"c1", "a1">>}
    /\ agent = ("a1" :> [NewAgent("t1") EXCEPT !.estado = "available"])
    /\ lead = <<>>
    /\ call = <<>>
    /\ dnc = {}
    /\ nodes = Tenants
    /\ now = 0
    /\ resp = Resp("init", NULL, "200", "ok", 0)
    /\ tick = <<>>

NextConfig ==
    \/ \E cfg \in RequestConfigs : SchemaAccepts(cfg) /\ create_campaign("c2", "t1", cfg)
    \/ \E c \in EditCampaigns, cfg \in RequestConfigs :
           SchemaAccepts(cfg) /\ update_campaign(c, cfg)
    \/ \E c \in EditCampaigns : pause_campaign(c)
    \/ \E c \in EditCampaigns : stop_campaign(c)

SpecConfig == InitConfig /\ [][NextConfig]_vars

\* ------------------------------------------------------------ caller id
\* Python's `or` passes over None and the empty string.
Falsy(v) == v \in {NULL, ""}

Or(a, b) == IF Falsy(a) THEN b ELSE a

\* The trunk originate_call dials through: the one it was handed, else the
\* campaign's.
ResolveTrunk(trunk, has_campaign, campaign_trunk) ==
    trunk \/ (has_campaign /\ campaign_trunk)

\* originate_call's effective_caller_id.
EffectiveCallerId(caller_id, has_campaign, campaign_caller_id, has_trunk, trunk_caller_id, destino) ==
    IF has_trunk
    THEN Or(caller_id, Or(IF has_campaign THEN campaign_caller_id ELSE NULL,
                          Or(trunk_caller_id, destino)))
    ELSE Or(caller_id, destino)

CallerIds == {NULL, "", "cid"}

\* One origination's caller id, kept with the arguments it was computed from.
originate_caller_id(caller_id, has_campaign, campaign_caller_id, trunk, campaign_trunk, trunk_caller_id, destino) ==
    /\ resp' = Resp("caller_id", NULL, "200", "ok", 0) @@
               [request |-> [caller_id |-> caller_id, has_campaign |-> has_campaign,
                             campaign_caller_id |-> campaign_caller_id,
                             has_trunk |-> ResolveTrunk(trunk, has_campaign, campaign_trunk),
                             trunk_caller_id |-> trunk_caller_id, destino |-> destino],
                caller_id |-> EffectiveCallerId(caller_id, has_campaign, campaign_caller_id,
                                  ResolveTrunk(trunk, has_campaign, campaign_trunk),
                                  trunk_caller_id, destino)]
    /\ UNCHANGED <<campaign, cagent, agent, lead, call, dnc, nodes, now, tick>>

InitCallerId ==
    /\ campaign = ("c1" :> NewCampaign("t1", Config("manual", 1, 1, 2, NoTime, NoTime, {})))
    /\ cagent = {<<"c1", "a1">>}
    /\ agent = ("a1" :> [NewAgent("t1") EXCEPT !.estado = "available"])
    /\ lead = <<>>
    /\ call = <<>>
    /\ dnc = {}
    /\ nodes = Tenants
    /\ now = 0
    /\ resp = Resp("init", NULL, "200", "ok", 0)
    /\ tick = <<>>

NextCallerId ==
    \E caller_id \in CallerIds, has_campaign \in BOOLEAN, campaign_caller_id \in CallerIds,
       trunk \in BOOLEAN, campaign_trunk \in BOOLEAN, trunk_caller_id \in CallerIds,
       destino \in {"p1", "p2"} :
        originate_caller_id(caller_id, has_campaign, campaign_caller_id, trunk,
                            campaign_trunk, trunk_caller_id, destino)

SpecCallerId == InitCallerId /\ [][NextCallerId]_vars

\* ------------------------------------------------------------ schedule
\* One running campaign under every shape of schedule window: no window, a
\* window around the first or the second time of day, a start time alone;
\* with no weekday set, with the current weekday, with another weekday.
ScheduleWindows == { <<NoTime, NoTime>>, <<0, 0>>, <<1, 1>>, <<0, NoTime>> }

ScheduleConfigs ==
    { Config(m, 1, 2, 2, w[1], w[2], d) :
          m \in {"progressive", "predictive"}, w \in ScheduleWindows, d \in {{}, {1}, {2}} }

InitSchedule ==
    /\ \E cfg \in ScheduleConfigs :
           campaign = ("c1" :> [NewCampaign("t1", cfg) EXCEPT
                                   !.estado = "running", !.total_leads = 2, !.leads_pending = 2])
    /\ cagent = {<<"c1", "a1">>}
    /\ agent = ("a1" :> [NewAgent("t1") EXCEPT !.estado = "available"])
    /\ lead = << NewCampaignLead("c1", "k1", "p1", "pending"),
                 NewCampaignLead("c1", "k2", "p2", "pending") >>
    /\ call = <<>>
    /\ dnc = {}
    /\ nodes = Tenants
    /\ now = 0
    /\ resp = Resp("init", NULL, "200", "ok", 0)
    /\ tick = <<>>

NextSchedule ==
    \/ \E outs \in Answers :
           \E order \in Orders(get_available_agents(agent, "c1")) :
               run_progressive_dialer("c1", order, outs)
    \/ \E outs \in Answers :
           \E order \in Orders(get_available_agents(agent, "c1")) :
               run_predictive_dialer("c1", order, outs)
    \/ update_agent_status("a1", "available", NULL)
    \/ AdvanceClock

SpecSchedule == InitSchedule /\ [][NextSchedule]_vars

\* ------------------------------------------------------------ retry
\* One running campaign with one lead and room for a second attempt, dialed
\* by ticks only, while the clock runs and the agent comes and goes.
RetryConfigs ==
    { Config("progressive", 1, 2, 2, NoTime, NoTime, {}),
      Config("progressive", 2, 2, 2, NoTime, NoTime, {}),
      Config("predictive", 1, 2, 2, NoTime, NoTime, {}),
      Config("predictive", 2, 2, 4, NoTime, NoTime, {}) }

InitRetry ==
    /\ \E cfg \in RetryConfigs :
           campaign = ("c1" :> [NewCampaign("t1", cfg) EXCEPT
                                   !.estado = "running", !.total_leads = 1, !.leads_pending = 1])
    /\ cagent = {<<"c1", "a1">>}
    /\ agent = ("a1" :> [NewAgent("t1") EXCEPT !.estado = "available"])
    /\ lead = << NewCampaignLead("c1", "k1", "p1", "pending") >>
    /\ call = <<>>
    /\ dnc = {}
    /\ nodes = Tenants
    /\ now = 0
    /\ resp = Resp("init", NULL, "200", "ok", 0)
    /\ tick = <<>>

RetryTick ==
    \E outs \in Answers :
        \E order \in Orders(get_available_agents(agent, "c1")) :
            \/ run_progressive_dialer("c1", order, outs)
            \/ run_predictive_dialer("c1", order, outs)

NextRetry ==
    \/ RetryTick
    \/ \E e \in {"available", "paused", "offline"} : update_agent_status("a1", e, NULL)
    \/ AdvanceClock

SpecRetry == InitRetry /\ [][NextRetry]_vars

\* The scheduler keeps ticking, so that a tick falls in the times it has a
\* lead to dial and an agent to dial for, if these keep coming; the clock keeps
\* running and the agent keeps coming back.
SpecRetryFair ==
    /\ SpecRetry
    /\ SF_vars(RetryTick /\ call' # call)
    /\ WF_vars(AdvanceClock)
    /\ WF_vars(update_agent_status("a1", "available", NULL))

\* ------------------------------------------------------------ backoff
\* The campaign's retry delay, in instants.
RetryDelay == 1

\* set_lead_retry: the lead's next attempt is due one retry delay from now.
set_lead_retry(l) ==
    /\ l \in LeadIds(lead)
    /\ lead' = [lead EXCEPT ![l].proximo_intento = now + RetryDelay]
    /\ resp' = Resp("set_lead_retry", lead[l].campaign_id, "returned", "ok", l)
    /\ UNCHANGED <<campaign, cagent, agent, call, dnc, nodes, now, tick>>

BackoffConfigs ==
    { Config("progressive", 2, 3, 2, NoTime, NoTime, {}),
      Config("predictive", 2, 3, 4, NoTime, NoTime, {}) }

\* Lead 1 is either fresh, or failed once, its retry scheduled one retry delay
\* after that attempt and now due (the CallRecord of that attempt is not kept
\* in the table); lead 2 is fresh.
InitBackoff ==
    /\ \E cfg \in BackoffConfigs :
           campaign = ("c1" :> [NewCampaign("t1", cfg) EXCEPT
                                   !.estado = "running", !.total_leads = 2, !.leads_pending = 2])
    /\ cagent = {<<"c1", "a1">>, <<"c1", "a2">>}
    /\ \E e \in {"available", "offline"} :
           agent = ("a1" :> [NewAgent("t1") EXCEPT !.estado = "available"])
                   @@ ("a2" :> [NewAgent("t1") EXCEPT !.estado = e])
    /\ \/ /\ lead = << NewCampaignLead("c1", "k1", "p1", "pending"),
                       NewCampaignLead("c1", "k2", "p2", "pending") >>
          /\ now = 0
       \/ /\ lead = << [NewCampaignLead("c1", "k1", "p1", "failed") EXCEPT
                           !.intentos = 1, !.ultimo_intento = 0,
                           !.proximo_intento = RetryDelay, !.assigned_agent_id = "a1"],
                       NewCampaignLead("c1", "k2", "p2", "pending") >>
          /\ now = RetryDelay
    /\ call = <<>>
    /\ dnc = {}
    /\ nodes = Tenants
    /\ resp = Resp("init", NULL, "200", "ok", 0)
    /\ tick = <<>>

NextBackoff ==
    \/ \E outs \in Answers :
           \E order \in Orders(get_available_agents(agent, "c1")) :
               run_progressive_dialer("c1", order, outs)
    \/ \E outs \in Answers :
           \E order \in Orders(get_available_agents(agent, "c1")) :
               run_predictive_dialer("c1", order, outs)
    \/ \E l \in LeadIds(lead) : lead[l].estado = "failed" /\ set_lead_retry(l)
    \/ \E a \in DOMAIN agent : update_agent_status(a, "available", NULL)
    \/ AdvanceClock

SpecBackoff == InitBackoff /\ [][NextBackoff]_vars

\* ------------------------------------------------------------ stamping
\* One agent dialing two leads of a running campaign, by ticks and by hand,
\* and dispositions applied to those leads.
StampConfigs ==
    { Config("progressive", 2, 2, 2, NoTime, NoTime, {}),
      Config("predictive", 2, 2, 4, NoTime, NoTime, {}) }

InitStamp ==
    /\ \E cfg \in StampConfigs :
           campaign = ("c1" :> [NewCampaign("t1", cfg) EXCEPT
                                   !.estado = "running", !.total_leads = 2, !.leads_pending = 2])
    /\ cagent = {<<"c1", "a1">>}
    /\ agent = ("a1" :> [NewAgent("t1") EXCEPT !.estado = "available"])
    /\ lead = << NewCampaignLead("c1", "k1", "p1", "pending"),
                 NewCampaignLead("c1", "k2", "p2", "pending") >>
    /\ call = <<>>
    /\ dnc = {}
    /\ nodes = Tenants
    /\ now = 0
    /\ resp = Resp("init", NULL, "200", "ok", 0)
    /\ tick = <<>>

NextStamp ==
    \/ \E outs \in Answers :
           \E order \in Orders(get_available_agents(agent, "c1")) :
               run_progressive_dialer("c1", order, outs)
    \/ \E outs \in Answers :
           \E order \in Orders(get_available_agents(agent, "c1")) :
               run_predictive_dialer("c1", order, outs)
    \/ \E l \in LeadIds(lead), ok \in BOOLEAN : make_manual_call("c1", "a1", l, ok)
    \/ \E l \in LeadIds(lead), disp \in {"d_open", "d_final"} :
           set_campaign_lead_disposition(l, disp, NoTime, NULL)
    \/ update_agent_status("a1", "available", NULL)

SpecStamp == InitStamp /\ [][NextStamp]_vars

\* ------------------------------------------------------------ assignments
\* DELETE /campaigns/{c}/agents/{a}.
remove_agent_from_campaign(c, a) ==
    /\ cagent' = cagent \ {<<c, a>>}
    /\ resp' = IF <<c, a>> \in cagent
               THEN Resp("remove_agent", c, "204", "ok", 0)
               ELSE Resp("remove_agent", c, "404", "Agent not assigned to this campaign", 0)
    /\ UNCHANGED <<campaign, agent, lead, call, dnc, nodes, now, tick>>

\* DELETE /agents/{a}: the row goes, its assignments go with it, and the leads
\* and CallRecords that name it name nobody.
delete_agent(a) ==
    /\ agent' = [x \in DOMAIN agent \ {a} |-> agent[x]]
    /\ cagent' = IF a \in DOMAIN agent THEN { p \in cagent : p[2] # a } ELSE cagent
    /\ lead' = IF a \in DOMAIN agent
               THEN [l \in DOMAIN lead |->
                        [lead[l] EXCEPT !.assigned_agent_id = IF @ = a THEN NULL ELSE @]]
               ELSE lead
    /\ call' = IF a \in DOMAIN agent
               THEN [i \in DOMAIN call |->
                        [call[i] EXCEPT !.agent_id = IF @ = a THEN NULL ELSE @]]
               ELSE call
    /\ resp' = IF a \in DOMAIN agent
               THEN Resp("delete_agent", NULL, "204", "ok", 0)
               ELSE Resp("delete_agent", NULL, "404", "Agent not found", 0)
    /\ UNCHANGED <<campaign, dnc, nodes, now, tick>>

\* One campaign, manual or progressive, with a lead enrolled, its two agents
\* assigned and removed while it is started, paused and stopped.
AssignAgents == {"a1", "a2"}

InitAssign ==
    /\ \E m \in {"manual", "progressive"} :
           campaign = ("c1" :> [NewCampaign("t1", Config(m, 1, 2, 2, NoTime, NoTime, {})) EXCEPT
                                   !.total_leads = 1, !.leads_pending = 1])
    /\ cagent = {}
    /\ agent = [a \in AssignAgents |-> [NewAgent("t1") EXCEPT !.estado = "available"]]
    /\ lead = << NewCampaignLead("c1", "k1", "p1", "pending") >>
    /\ call = <<>>
    /\ dnc = {}
    /\ nodes = Tenants
    /\ now = 0
    /\ resp = Resp("init", NULL, "200", "ok", 0)
    /\ tick = <<>>

NextAssign ==
    \/ \E a \in AssignAgents : assign_agent_to_campaign("c1", a)
    \/ \E a \in AssignAgents : remove_agent_from_campaign("c1", a)
    \/ \E a \in AssignAgents : delete_agent(a)
    \/ start_campaign("c1")
    \/ pause_campaign("c1")
    \/ stop_campaign("c1")

SpecAssign == InitAssign /\ [][NextAssign]_vars

\* ============================================================ properties

\* C1: with max_concurrent_calls = N, no interleaving of concurrent dialer
\* ticks leaves more than N leads of the campaign in state dialing.
C1_ConcurrencyLimit ==
    \A c \in DOMAIN campaign :
        get_active_calls_count(lead, c) <= campaign[c].max_concurrent_calls

\* C2: no dial attempt creates a CallRecord for a lead whose phone number is on
\* the DNC list of the lead's tenant.
C2_NoCallRecordForDncNumber ==
    [][\A id \in (DOMAIN call') \ (DOMAIN call) :
          LET l == call'[id].campaign_lead_id IN
          l # NoLead => ~IsDnc(campaign[lead[l].campaign_id].cuenta_id, lead[l].telefono)]_vars

\* C3: an agent's current call is non-null exactly while the agent is ringing
\* or on_call.
C3_CurrentCallIffOnCall ==
    \A a \in DOMAIN agent :
        (agent[a].current_call_id # NoCall) <=> (agent[a].estado \in {"ringing", "on_call"})

\* C4: an agent is reserved for at most one outbound attempt at a time: no
\* agent has two CallRecords that have not ended.
C4_AgentReservedOnce ==
    \A a \in DOMAIN agent :
        Cardinality({ id \in DOMAIN call : call[id].agent_id = a /\ ~call[id].ended }) <= 1

\* C5: no lead is held as the selected lead by two concurrent ticks.
C5_LeadSelectedOnce ==
    \A s, t \in DOMAIN tick :
        (s # t /\ tick[s].lead # NoLead /\ tick[t].lead # NoLead) => tick[s].lead # tick[t].lead

\* C6: a manual call is originated only while the campaign of the request is
\* running and inside its schedule window.
C6_ManualCallNeedsRunningInWindow ==
    (resp.op = "manual_call" /\ resp.status = "success") =>
        /\ campaign[resp.campaign].estado = "running"
        /\ is_campaign_in_schedule(campaign[resp.campaign], now)

\* C7: a tick that begins while its campaign is not running, or outside the
\* schedule window, goes straight to its return with no result, and from its
\* beginning to its return no agent, lead, CallRecord or CallEvent changes.
C7_RefusedTickChangesNothing ==
    [][\A s \in DOMAIN tick :
          /\ (tick[s].pc = "idle" /\ tick'[s].pc # "idle"
                /\ (\/ campaign[tick'[s].campaign].estado # "running"
                    \/ ~is_campaign_in_schedule(campaign[tick'[s].campaign], now)))
             => /\ tick'[s].pc = "done"
                /\ tick'[s].n = 0
                /\ tick'[s].gate \in {"not_running", "out_of_schedule"}
                /\ UNCHANGED <<campaign, agent, lead, call>>
          /\ (tick[s].pc = "done" /\ tick[s].gate \in {"not_running", "out_of_schedule"}
                /\ tick'[s] # tick[s])
             => /\ tick[s].n = 0
                /\ tick'[s] = IdleFrame
                /\ UNCHANGED <<campaign, agent, lead, call>>]_vars

\* Two ticks refused, one for each reason, after a call had been originated.
C7_Witness ==
    /\ call # <<>>
    /\ \E s, t \in DOMAIN tick :
          /\ tick[s].pc = "done" /\ tick[s].gate = "not_running"
          /\ tick[t].pc = "done" /\ tick[t].gate = "out_of_schedule"

\* C8: start succeeds exactly from draft, paused or stopped with a lead
\* enrolled and, unless the mode is manual, an agent assigned, and then the
\* campaign is running; from running or completed it fails with the
\* invalid-state error; with no lead or no agent it fails with a validation
\* error that is not the invalid-state error; a failed start changes nothing.
C8_StartOutcome ==
    [][LET c == resp'.campaign IN
       (resp'.op = "start" /\ c \in DOMAIN campaign) =>
          LET from_ok == campaign[c].estado \in {"draft", "paused", "stopped"}
              has_lead == \E l \in DOMAIN lead : lead[l].campaign_id = c
              has_agent == \E a \in DOMAIN agent : <<c, a>> \in cagent
              ready == has_lead /\ (campaign[c].dialer_mode = "manual" \/ has_agent)
          IN /\ (resp'.detail = "ok") <=> (from_ok /\ ready)
             /\ resp'.detail = "ok" => (resp'.status = "200" /\ campaign'[c].estado = "running")
             /\ campaign[c].estado \in {"running", "completed"}
                   => resp'.detail = "Cannot start campaign in state"
             /\ (from_ok /\ ~ready)
                   => resp'.detail \in {"Assign at least one agent before starting",
                                         "Add at least one lead before starting"}
             /\ resp'.detail # "ok"
                   => (resp'.status = "400" /\ UNCHANGED <<campaign, cagent, agent, lead, call>>)]_vars

\* A start refused on a completed campaign that has its lead and its agent.
C8_Witness ==
    /\ resp.op = "start"
    /\ resp.detail = "Cannot start campaign in state"
    /\ campaign["c1"].estado = "completed"
    /\ campaign["c1"].dialer_mode = "progressive"
    /\ <<"c1", "a1">> \in cagent
    /\ \E l \in DOMAIN lead : lead[l].campaign_id = "c1"

\* C9: pause succeeds only from running and stop only from running or paused;
\* from any other state each fails with its invalid-state error and the
\* campaign stays as it was.
C9_PauseStopOutcome ==
    [][LET c == resp'.campaign IN
       /\ (resp'.op = "pause" /\ c \in DOMAIN campaign) =>
             /\ (resp'.detail = "ok") <=> (campaign[c].estado = "running")
             /\ resp'.detail = "ok" => campaign'[c].estado = "paused"
             /\ resp'.detail # "ok"
                   => /\ resp'.detail = "Campaign is not running"
                      /\ resp'.status = "400"
                      /\ UNCHANGED <<campaign, cagent, agent, lead, call>>
       /\ (resp'.op = "stop" /\ c \in DOMAIN campaign) =>
             /\ (resp'.detail = "ok") <=> (campaign[c].estado \in {"running", "paused"})
             /\ resp'.detail = "ok" => campaign'[c].estado = "stopped"
             /\ resp'.detail # "ok"
                   => /\ resp'.detail = "Campaign is not running or paused"
                      /\ resp'.status = "400"
                      /\ UNCHANGED <<campaign, cagent, agent, lead, call>>]_vars

\* A pause refused on a stopped campaign that had dialed.
C9_Witness ==
    /\ resp.op = "pause"
    /\ resp.detail = "Campaign is not running"
    /\ campaign[resp.campaign].estado = "stopped"
    /\ call # <<>>

\* C10: a campaign's state changes only along draft->running, paused->running,
\* stopped->running, running->paused, running->stopped, paused->stopped; no
\* operation moves it to completed or back to draft.
C10_StateTransitions ==
    [][\A c \in DOMAIN campaign :
          (c \in DOMAIN campaign' /\ campaign'[c].estado # campaign[c].estado) =>
              <<campaign[c].estado, campaign'[c].estado>> \in
                  { <<"draft", "running">>, <<"paused", "running">>, <<"stopped", "running">>,
                    <<"running", "paused">>, <<"running", "stopped">>, <<"paused", "stopped">> }]_vars

\* A campaign restarted after a stop, its configuration edited in between.
C10_Witness ==
    /\ resp.op = "start" /\ resp.detail = "ok"
    /\ campaign["c1"].estado = "running"
    /\ campaign["c1"].dialer_mode = "manual"
    /\ \E id \in DOMAIN call : call[id].campaign_id = "c1" /\ call[id].ended

\* C11: racing start, pause and stop requests behave as some sequential order
\* of them: every request that commits its new state overwrites a state from
\* which its transition is allowed.
C11_CommitOverwritesAllowedState ==
    [][\A s \in DOMAIN tick :
          (tick[s].pc = "commit" /\ tick'[s].pc = "done") =>
              campaign[tick[s].campaign].estado \in
                  (IF tick[s].kind = "start" THEN {"draft", "paused", "stopped"}
                   ELSE IF tick[s].kind = "pause" THEN {"running"}
                   ELSE {"running", "paused"})]_vars

\* C12: a configuration edit and a deletion of a running campaign are both
\* refused as an invalid state (400) and leave the campaign, its leads and its
\* agent assignments as they were; in every other state the edit is applied
\* and the deletion removes the campaign.
C12_EditDeleteOutcome ==
    [][\A c \in DOMAIN campaign :
          (resp'.campaign = c /\ resp'.op \in {"update_campaign", "delete_campaign"}) =>
              IF campaign[c].estado = "running"
              THEN /\ resp'.status = "400"
                   /\ resp'.detail \in {"Cannot update a running campaign. Pause it first.",
                                        "Cannot delete a running campaign"}
                   /\ UNCHANGED <<campaign, lead, cagent>>
              ELSE IF resp'.op = "update_campaign"
              THEN /\ resp'.status = "200"
                   /\ \E cfg \in Configs : campaign' = [campaign EXCEPT ![c] = WithConfig(@, cfg)]
              ELSE /\ resp'.status = "204"
                   /\ c \notin DOMAIN campaign'
                   /\ \A l \in LeadIds(lead') : lead'[l].campaign_id # c
                   /\ \A p \in cagent' : p[1] # c]_vars

\* A running campaign with a lead and an agent has just refused its deletion.
C12_Witness ==
    /\ resp.op = "delete_campaign" /\ resp.status = "400"
    /\ resp.campaign \in DOMAIN campaign
    /\ campaign[resp.campaign].estado = "running"
    /\ \E l \in LeadIds(lead) : lead[l].campaign_id = resp.campaign
    /\ \E p \in cagent : p[1] = resp.campaign

\* C13: once a lead has used up the campaign's max_retries and its last call
\* failed, no progressive or predictive tick dials it again (its attempt
\* counter never moves past max_retries).
C13_ExhaustedLeadNeverDialedAgain ==
    [][resp'.op \in {"progressive", "predictive"} =>
          \A l \in LeadIds(lead) :
              LET calls == { i \in DOMAIN call : call[i].campaign_lead_id = l }
                  last == CHOOSE i \in calls : \A j \in calls : j <= i
              IN (/\ lead[l].campaign_id \in DOMAIN campaign
                  /\ lead[l].intentos >= campaign[lead[l].campaign_id].max_retries
                  /\ calls # {}
                  /\ call[last].resultado = "failed")
                     => lead'[l].intentos = lead[l].intentos]_vars

\* C14: the lead queue returns at most one lead by strict priority: the
\* scheduled lead of the campaign with the earliest callback time that is due;
\* otherwise the lead in no_answer, busy or failed with attempts below
\* max_retries whose retry time is the earliest one due; otherwise the oldest
\* pending lead; otherwise none.  It never returns a lead in dialing, contacted,
\* completed, dnc or abandoned, nor a lead of another campaign.
C14_StrictPriority ==
    resp.op = "get_next_lead" =>
        LET c == resp.campaign
            r == resp.n
            mine == { l \in DOMAIN lead : lead[l].campaign_id = c }
            due == { l \in mine : /\ lead[l].estado = "scheduled"
                                  /\ lead[l].callback_at # NoTime
                                  /\ lead[l].callback_at <= now }
            retry == { l \in mine : /\ lead[l].estado \in {"no_answer", "busy", "failed"}
                                    /\ lead[l].intentos < campaign[c].max_retries
                                    /\ lead[l].proximo_intento # NoTime
                                    /\ lead[l].proximo_intento <= now }
            pend == { l \in mine : lead[l].estado = "pending" }
        IN /\ IF due # {}
              THEN r \in due /\ \A m \in due : lead[r].callback_at <= lead[m].callback_at
              ELSE IF retry # {}
              THEN r \in retry /\ \A m \in retry : lead[r].proximo_intento <= lead[m].proximo_intento
              ELSE IF pend # {}
              THEN r \in pend /\ \A m \in pend : r <= m
              ELSE r = NoLead
           /\ r # NoLead =>
                  /\ lead[r].campaign_id = c
                  /\ lead[r].estado \notin {"dialing", "contacted", "completed", "dnc", "abandoned"}

\* The queue returned a lead due for a retry while a pending lead of the same
\* campaign was waiting.
C14_Witness ==
    /\ resp.op = "get_next_lead" /\ resp.n # NoLead
    /\ lead[resp.n].estado \in {"no_answer", "busy", "failed"}
    /\ \E l \in DOMAIN lead : lead[l].campaign_id = resp.campaign /\ lead[l].estado = "pending"

C16_RejectedOrigination ==
    [][/\ \A s \in DOMAIN tick :
             (tick[s].pc = "answer" /\ tick'[s].pc = "select"
                 /\ call'[tick[s].call].uniqueid = NULL) =>
                 LET id == tick[s].call
                     l == tick[s].lead
                     a == call[id].agent_id
                 IN /\ call'[id].resultado = "failed" /\ call'[id].ended
                    /\ call'[id].events = <<"originate", "failed">>
                    /\ agent'[a].estado = "available" /\ agent'[a].current_call_id = NoCall
                    /\ lead'[l].estado = "failed"
                    /\ lead'[l].intentos = tick[s].intentos + 1
                    /\ tick'[s].n = tick[s].n + 1
       /\ (tick' = tick /\ resp'.op = "manual_call" /\ Len(call') = Len(call) + 1
              /\ call'[Len(call')].uniqueid = NULL) =>
             LET id == Len(call')
                 l == call'[id].campaign_lead_id
                 a == call'[id].agent_id
             IN /\ resp'.status = "error"
                /\ call'[id].resultado = "failed" /\ call'[id].ended
                /\ call'[id].events = <<"originate", "failed">>
                /\ agent'[a].estado = "available" /\ agent'[a].current_call_id = NoCall
                /\ lead'[l].estado = "failed"
                /\ lead'[l].intentos = lead[l].intentos + 1]_vars

\* A tick goes on after the PBX rejected its originate: the record is failed
\* and the lead failed with one attempt.
C16_Witness ==
    \E s \in DOMAIN tick, i \in DOMAIN call :
        /\ tick[s].pc = "select" /\ tick[s].n > 0
        /\ call[i].resultado = "failed" /\ call[i].events = <<"originate", "failed">>
        /\ call[i].campaign_lead_id # NoLead
        /\ lead[call[i].campaign_lead_id].estado = "failed"
        /\ lead[call[i].campaign_lead_id].intentos = 1

\* C17: whatever state the lead was in, a disposition leaves it scheduled with
\* exactly the given callback time when the disposition requires a callback and
\* a time is given, otherwise completed when the disposition is final,
\* otherwise contacted; the disposition and the note are stored on the lead.
C17_DecisionTable ==
    [][resp'.op = "disposition" =>
          LET l == resp'.request.cl_id
              disp == resp'.request.disposition_id
              callback_at == resp'.request.callback_at
              nota == resp'.request.nota
          IN (l \in LeadIds(lead) /\ disp \in DispositionIds) =>
                /\ resp'.status = "200"
                /\ lead'[l].disposition_id = disp
                /\ lead'[l].disposition_nota = nota
                /\ IF Dispositions[disp].requiere_reagendamiento /\ callback_at # NoTime
                   THEN lead'[l].estado = "scheduled" /\ lead'[l].callback_at = callback_at
                   ELSE IF Dispositions[disp].es_final
                   THEN lead'[l].estado = "completed"
                   ELSE lead'[l].estado = "contacted"]_vars

\* A lead that was dialed is scheduled for a later callback by a disposition
\* that is also final, its note stored.
C17_Witness ==
    /\ resp.op = "disposition" /\ resp.status = "200"
    /\ \E l \in LeadIds(lead) :
           /\ lead[l].estado = "scheduled" /\ lead[l].callback_at = MaxClock
           /\ lead[l].disposition_id = "d_cb_final" /\ lead[l].disposition_nota = "n1"
           /\ lead[l].intentos > 0

\* C18: a disposition on a lead whose assigned agent has a current call puts
\* the same disposition and note on that CallRecord and appends exactly one
\* disposition CallEvent to it; with no assigned agent, or an agent without a
\* current call, no CallRecord and no CallEvent changes.
C18_CallStamped ==
    [][resp'.op = "disposition" =>
          LET l == resp'.request.cl_id
              disp == resp'.request.disposition_id
              callback_at == resp'.request.callback_at
              nota == resp'.request.nota
          IN (l \in LeadIds(lead) /\ disp \in DispositionIds) =>
                LET a == lead[l].assigned_agent_id IN
                IF a # NULL /\ a \in DOMAIN agent /\ agent[a].current_call_id # NoCall
                THEN LET id == agent[a].current_call_id IN
                     /\ call'[id].disposition_id = disp
                     /\ call'[id].disposition_nota = nota
                     /\ call'[id].events = Append(call[id].events, "disposition")
                     /\ Len(call') = Len(call)
                     /\ \A i \in DOMAIN call : i # id => call'[i] = call[i]
                ELSE call' = call]_vars

\* The current call of the lead's agent carries the disposition and its event.
C18_Witness ==
    /\ resp.op = "disposition" /\ resp.status = "200"
    /\ \E l \in LeadIds(lead) :
           /\ lead[l].assigned_agent_id # NULL
           /\ LET id == agent[lead[l].assigned_agent_id].current_call_id IN
              /\ id # NoCall
              /\ call[id].disposition_id = lead[l].disposition_id
              /\ call[id].disposition_nota = "n1"
              /\ call[id].events = <<"originate", "disposition">>

\* C19: when a disposition has been applied, the campaign's cached counters
\* equal the counts over the lead states as they then are: total_leads the
\* enrolled leads, leads_contacted those contacted or completed, leads_pending
\* those pending.
C19_StatsAfterDisposition ==
    [][resp'.op = "disposition" =>
          LET l == resp'.request.cl_id
              disp == resp'.request.disposition_id
              callback_at == resp'.request.callback_at
              nota == resp'.request.nota
          IN (l \in LeadIds(lead) /\ disp \in DispositionIds) =>
                LET c == lead[l].campaign_id IN
                /\ campaign'[c].total_leads = CountEstado(lead', c, CampaignLeadStatus)
                /\ campaign'[c].leads_contacted =
                       CountEstado(lead', c, {"contacted", "completed"})
                /\ campaign'[c].leads_pending = CountEstado(lead', c, {"pending"})]_vars

\* C20: enrolling a contact already enrolled in the campaign is refused as a
\* duplicate (one at a time) or skipped (in bulk) and leaves the existing lead
\* as it was, so there is at most one lead per campaign and contact; a contact
\* enrolled in another campaign is enrolled all the same, and a change to one
\* of its leads leaves the other as it was.
C20_OneLeadPerCampaignAndContact ==
    [][/\ \A l, m \in LeadIds(lead') :
             (lead'[l].campaign_id = lead'[m].campaign_id /\ lead'[l].lead_id = lead'[m].lead_id)
                 => l = m
       /\ resp'.op \in {"add_lead", "bulk_add"} => \A l \in LeadIds(lead) : lead'[l] = lead[l]
       /\ \A c \in DOMAIN campaign, k \in Contacts :
             add_campaign_lead(c, k, ContactDatos[k].tel) =>
                 IF Enrolled(lead, c, k)
                 THEN resp'.status = "400" /\ lead' = lead
                 ELSE ContactCuenta[k] = campaign[c].cuenta_id =>
                          /\ resp'.status = "201"
                          /\ Len(lead') = Len(lead) + 1
                          /\ lead'[Len(lead')].campaign_id = c
                          /\ lead'[Len(lead')].lead_id = k
       /\ resp'.op = "bulk_add" =>
             \A l \in LeadIds(lead') \ LeadIds(lead) :
                 /\ lead'[l].campaign_id = resp'.campaign
                 /\ ~Enrolled(lead, resp'.campaign, lead'[l].lead_id)
       /\ resp'.op = "disposition" =>
             \A l, m \in LeadIds(lead) : (l # m /\ lead'[l] # lead[l]) => lead'[m] = lead[m]]_vars

\* A contact is enrolled in both campaigns, one lead has received a
\* disposition and the other is still pending, and a bulk enrollment has just
\* skipped the contact.
C20_Witness ==
    /\ resp.op = "bulk_add" /\ resp.status = "200" /\ resp.n = 0
    /\ \E l, m \in LeadIds(lead) :
           /\ lead[l].lead_id = lead[m].lead_id
           /\ lead[l].campaign_id # lead[m].campaign_id
           /\ lead[l].estado = "completed" /\ lead[m].estado = "pending"

\* C21: a contact enrolled, one at a time or in bulk, with a phone that is on
\* its tenant's DNC list is created in state dnc and the lead queue does not
\* return it; a contact whose phone is not on the list is created pending with
\* no attempts.
C21_EnrollmentChecksDnc ==
    [][resp'.op \in {"add_lead", "bulk_add"} =>
          \A l \in LeadIds(lead') \ LeadIds(lead) :
              LET c == lead'[l].campaign_id IN
              IF <<campaign[c].cuenta_id, lead'[l].telefono>> \in dnc
              THEN /\ lead'[l].estado = "dnc"
                   /\ get_next_lead(lead', c, now) # l
              ELSE /\ lead'[l].estado = "pending"
                   /\ lead'[l].intentos = 0]_vars

\* A bulk enrollment has created one lead in dnc, for the listed phone, and
\* one pending.
C21_Witness ==
    /\ resp.op = "bulk_add" /\ resp.n = 2
    /\ \E l, m \in LeadIds(lead) :
           /\ lead[l].campaign_id = lead[m].campaign_id
           /\ lead[l].estado = "dnc" /\ <<"t1", lead[l].telefono>> \in dnc
           /\ lead[m].estado = "pending" /\ <<"t1", lead[m].telefono>> \notin dnc

\* C22: a progressive tick on a running campaign inside its schedule, with A
\* available assigned agents, D leads dialing and E candidate leads whose phone
\* is not on the DNC list, originates exactly min(A, max_concurrent_calls - D, E)
\* calls, each for a different agent and a different lead, and every lead it
\* does not dial keeps its state.
C22_ProgressiveCallCount ==
    [][(/\ resp'.op = "progressive"
        /\ campaign[resp'.campaign].estado = "running"
        /\ is_campaign_in_schedule(campaign[resp'.campaign], now)) =>
          LET c == resp'.campaign
              A == Cardinality(get_available_agents(agent, c))
              D == get_active_calls_count(lead, c)
              queue == CallbackDue(lead, c, now) \cup RetryDue(lead, c, now)
                           \cup PendingLeads(lead, c)
              E == Cardinality({ l \in queue :
                                    ~IsDnc(campaign[c].cuenta_id, lead[l].telefono) })
              room == Min(A, Min(campaign[c].max_concurrent_calls - D, E))
              new == (Len(call) + 1) .. Len(call')
          IN /\ Cardinality(new) = IF room > 0 THEN room ELSE 0
             /\ \A i, j \in new :
                    i # j => /\ call'[i].agent_id # call'[j].agent_id
                             /\ call'[i].campaign_lead_id # call'[j].campaign_lead_id
             /\ \A l \in LeadIds(lead) :
                    (/\ \A i \in new : call'[i].campaign_lead_id # l
                     /\ ~IsDnc(campaign[c].cuenta_id, lead[l].telefono))
                        => lead'[l].estado = lead[l].estado]_vars

\* C23: a predictive tick with A > 0 available agents and D leads dialing
\* originates at most min(floor(A * predictive_ratio), max_concurrent_calls) - D
\* calls, none when that is not positive; the calls go to the available agents
\* in turn, and a candidate on the DNC list is marked dnc and takes no agent's
\* turn.
C23_PredictiveRoom ==
    [][resp'.op = "predictive" =>
          LET c == resp'.campaign
              avail == get_available_agents(agent, c)
              A == Cardinality(avail)
              D == get_active_calls_count(lead, c)
              room == Min((A * campaign[c].predictive_ratio_x2) \div 2,
                          campaign[c].max_concurrent_calls) - D
              new == Len(call') - Len(call)
          IN A > 0 =>
                /\ new <= (IF room > 0 THEN room ELSE 0)
                /\ \E order \in Orders(avail) :
                       \A i \in 1 .. new :
                           call'[Len(call) + i].agent_id = order[((i - 1) % A) + 1]
                /\ \A l \in LeadIds(lead) :
                       (lead'[l].estado = "dnc" /\ lead[l].estado # "dnc") =>
                           /\ IsDnc(campaign[c].cuenta_id, lead[l].telefono)
                           /\ \A i \in 1 .. new : call'[Len(call) + i].campaign_lead_id # l]_vars

\* A predictive tick has marked the first candidate dnc and dialed the second
\* for the first agent in turn.
C23_Witness ==
    /\ resp.op = "predictive" /\ resp.n = 1
    /\ lead[1].estado = "dnc" /\ lead[1].intentos = 0
    /\ Len(call) = 1 /\ call[1].campaign_lead_id = 2
    /\ lead[2].intentos = 1

\* C25: a failed origination never ends a tick: whatever the PBX answers to
\* each origination, a progressive or predictive tick originates the same
\* number of calls, for the same agents, leads and numbers, as it does when
\* every origination succeeds.
C25_FailureDoesNotAbortTick ==
    \A c \in DOMAIN campaign, outs \in Answers :
        \A order \in Orders(get_available_agents(agent, c)) :
            LET allok == [i \in 1 .. MaxCalls |-> TRUE]
                agents == Take(order, ProgressiveMaxNew(c))
                same(r, s) ==
                    (~r.over /\ ~s.over) =>
                        /\ r.n = s.n
                        /\ Len(r.db.call) = Len(s.db.call)
                        /\ \A i \in DOMAIN r.db.call :
                               /\ r.db.call[i].agent_id = s.db.call[i].agent_id
                               /\ r.db.call[i].campaign_lead_id = s.db.call[i].campaign_lead_id
                               /\ r.db.call[i].destino = s.db.call[i].destino
            IN /\ ProgressiveGate(c) = "loop" =>
                      same(ProgressiveLoop(Cur, c, agents, outs, 0),
                           ProgressiveLoop(Cur, c, agents, allok, 0))
               /\ PredictiveGate(c) = "loop" =>
                      same(PredictiveLoop(Cur, c, order, 0, PredictiveMaxNew(c), outs, 0),
                           PredictiveLoop(Cur, c, order, 0, PredictiveMaxNew(c), allok, 0))

\* A tick went on after the PBX rejected its first origination: the first
\* call is failed and the second one was originated for the next lead.
C25_Witness ==
    /\ resp.op \in {"progressive", "predictive"} /\ resp.n = 2
    /\ Len(call) = 2
    /\ call[1].resultado = "failed" /\ call[2].resultado = "pending"
    /\ call[1].campaign_lead_id # call[2].campaign_lead_id

\* C24: a manual call refused because the agent is missing, inactive or not in
\* available or wrap_up, because the lead does not exist, or because the lead
\* has used up max_retries, returns a non-success result, creates no CallRecord
\* or CallEvent and leaves the agent and the lead as they were; refused because
\* the number is on the DNC list, it only sets the lead's state to dnc.
C24_RefusedManualCall ==
    [][\A a \in ManualAgents, l \in 1 .. MaxLeads + 1, ok \in BOOLEAN :
          make_manual_call("c1", a, l, ok) =>
              LET cuenta == campaign["c1"].cuenta_id
                  agentBad == \/ a \notin DOMAIN agent
                              \/ agent[a].cuenta_id # cuenta
                              \/ ~agent[a].activo
                              \/ agent[a].estado \notin {"available", "wrap_up"}
                  leadBad == l \notin LeadIds(lead)
                  onDnc == ~leadBad /\ <<cuenta, lead[l].telefono>> \in dnc
                  exhausted == ~leadBad
                               /\ lead[l].intentos >= campaign[lead[l].campaign_id].max_retries
              IN /\ (agentBad \/ leadBad \/ (exhausted /\ ~onDnc)) =>
                        /\ resp'.status = "error"
                        /\ UNCHANGED <<call, agent, lead>>
                 /\ (~agentBad /\ onDnc) =>
                        /\ resp'.status = "error"
                        /\ UNCHANGED <<call, agent>>
                        /\ lead' = [lead EXCEPT ![l].estado = "dnc"]]_vars

\* A manual call was refused for a lead that had used its one attempt: the
\* lead is still failed with one attempt and one CallRecord exists.
C24_Witness ==
    /\ resp.op = "manual_call" /\ resp.status = "error"
    /\ resp.detail = "Max retries reached for this lead"
    /\ Len(call) = 1
    /\ lead[call[1].campaign_lead_id].estado = "failed"
    /\ lead[call[1].campaign_lead_id].intentos = 1

\* C26: pausing or stopping a campaign changes nothing but the campaign's
\* state: leads dialing stay dialing, agents stay ringing with their call
\* bound, no CallRecord or CallEvent changes; and a tick on a paused or stopped
\* campaign originates nothing.
C26_PauseStopFrame ==
    [][/\ resp'.op \in {"pause", "stop"} =>
             /\ UNCHANGED <<lead, agent, call, cagent>>
             /\ DOMAIN campaign' = DOMAIN campaign
             /\ \A c \in DOMAIN campaign :
                    campaign'[c] = [campaign[c] EXCEPT !.estado = campaign'[c].estado]
       /\ (/\ resp'.op \in {"progressive", "predictive"}
           /\ campaign[resp'.campaign].estado \in {"paused", "stopped"}) =>
             /\ UNCHANGED <<lead, agent, call>>
             /\ resp'.n = 0]_vars

\* A campaign was paused or stopped while a lead was dialing and its agent
\* ringing, and the tick that followed originated nothing.
C26_Witness ==
    /\ resp.op \in {"progressive", "predictive"} /\ resp.detail = "not_running"
    /\ campaign[resp.campaign].estado \in {"paused", "stopped"}
    /\ \E l \in LeadIds(lead) :
           /\ lead[l].campaign_id = resp.campaign /\ lead[l].estado = "dialing"
           /\ agent[lead[l].assigned_agent_id].estado = "ringing"
           /\ agent[lead[l].assigned_agent_id].current_call_id # NoCall

\* C27: once a CallRecord has its end time, no later operation, in any
\* interleaving of originations, dispositions and agent status updates,
\* changes a field of it or appends a CallEvent to it.
C27_EndedCallImmutable ==
    [][\A i \in DOMAIN call : call[i].ended => call'[i] = call[i]]_vars

\* C28: in every reachable state, originations interleaved with agent status
\* updates included, an agent has a pause reason only while it is paused.
C28_PauseReasonOnlyWhilePaused ==
    \A a \in DOMAIN agent : agent[a].pause_reason # NULL => agent[a].estado = "paused"

\* C29: every campaign reachable through creation and configuration edits
\* has max_concurrent_calls >= 1 and a predictive ratio >= 1.
C29_ConfigAtLeastOne ==
    \A c \in DOMAIN campaign :
        /\ campaign[c].max_concurrent_calls >= 1
        /\ campaign[c].predictive_ratio_x2 >= 2

\* C30: the effective caller id of an origination is the first present of
\* the explicit override, the campaign's override, the trunk's default and the
\* raw destination; the campaign's override is used whenever no explicit one is
\* given, whether or not a trunk is resolved.
C30_CallerIdPrecedence ==
    resp.op = "caller_id" =>
        LET r == resp.request IN
        resp.caller_id =
            IF ~Falsy(r.caller_id) THEN r.caller_id
            ELSE IF r.has_campaign /\ ~Falsy(r.campaign_caller_id) THEN r.campaign_caller_id
            ELSE IF r.has_trunk /\ ~Falsy(r.trunk_caller_id) THEN r.trunk_caller_id
            ELSE r.destino

C32_InScheduleExactly ==
    [][/\ \A c \in DOMAIN campaign :
             is_campaign_in_schedule(campaign[c], now) <=>
                 \/ campaign[c].hora_inicio = NoTime \/ campaign[c].hora_fin = NoTime
                 \/ /\ CurrentDow(now) \in campaign[c].dias_semana
                    /\ campaign[c].hora_inicio <= CurrentTime(now)
                    /\ CurrentTime(now) <= campaign[c].hora_fin
       /\ (resp'.op \in {"progressive", "predictive"} /\ Len(call') > Len(call)) =>
             LET c == campaign[resp'.campaign] IN
             \/ c.hora_inicio = NoTime \/ c.hora_fin = NoTime
             \/ /\ CurrentDow(now) \in c.dias_semana
                /\ c.hora_inicio <= CurrentTime(now) /\ CurrentTime(now) <= c.hora_fin]_vars

\* C33: a lead whose origination failed with attempts left is dialed again by
\* a later tick of the running campaign, without anybody's intervention.
C33_RetryIsLive ==
    \A l \in 1 .. 1 :
        (/\ l \in DOMAIN lead /\ lead[l].estado = "failed"
         /\ lead[l].intentos < campaign[lead[l].campaign_id].max_retries
         /\ Len(call) < MaxCalls)
            ~> (lead[l].estado = "dialing" \/ lead[l].intentos >= 2)

\* C34: a progressive or predictive tick never originates more than one call
\* for the same lead, and it originates a call for a lead that was attempted
\* before only when at least the retry delay has passed since that attempt.
C34_BackoffRespected ==
    [][resp'.op \in {"progressive", "predictive"} =>
          \A l \in DOMAIN lead :
              LET new == { i \in DOMAIN call' : i > Len(call) /\ call'[i].campaign_lead_id = l }
              IN /\ Cardinality(new) <= 1
                 /\ (new # {} /\ lead[l].ultimo_intento # NoTime) =>
                        now - lead[l].ultimo_intento >= RetryDelay]_vars

\* C35: in every reachable state, under every interleaving of manual calls
\* and ticks, the attempt counter of a campaign lead equals the number of
\* CallRecords created for that lead.
C35_AttemptsCountCallRecords ==
    \A l \in LeadIds(lead) :
        lead[l].intentos = Cardinality({ i \in DOMAIN call : call[i].campaign_lead_id = l })

\* C36: the tenant of every CallRecord is the tenant of its agent and of the
\* campaign that owns its lead, and a manual call asked under one tenant's
\* campaign never dials, changes or marks a lead of another tenant's campaign.
C36_TenantIsolation ==
    [][/\ \A i \in DOMAIN call' :
             LET l == call'[i].campaign_lead_id IN
             /\ call'[i].agent_id \in DOMAIN agent' =>
                    call'[i].cuenta_id = agent'[call'[i].agent_id].cuenta_id
             /\ (l # NoLead /\ l \in LeadIds(lead') /\ lead'[l].campaign_id \in DOMAIN campaign') =>
                    call'[i].cuenta_id = campaign'[lead'[l].campaign_id].cuenta_id
       /\ (resp'.op = "manual_call" /\ resp'.campaign \in DOMAIN campaign) =>
             \A l \in LeadIds(lead) :
                 (lead[l].campaign_id \in DOMAIN campaign
                    /\ campaign[lead[l].campaign_id].cuenta_id # campaign[resp'.campaign].cuenta_id)
                     => lead'[l] = lead[l]]_vars

\* C37: a disposition applied to a lead is stamped only on a CallRecord that
\* was created for that lead.
C37_DispositionOnOwnCall ==
    [][resp'.op = "disposition" =>
          \A i \in DOMAIN call :
              call'[i] # call[i] => call[i].campaign_lead_id = resp'.request.cl_id]_vars

\* C38: in every reachable state a running campaign has at least one enrolled
\* lead and, unless its dialing mode is manual, at least one assigned agent.
C38_RunningKeepsStartConditions ==
    \A c \in DOMAIN campaign :
        campaign[c].estado = "running" =>
            /\ LeadsCount(c) >= 1
            /\ campaign[c].dialer_mode # "manual" => AgentsCount(c) >= 1

\* C39: an agent reserved by a successful origination stays ringing with that
\* call bound until an agent status update or a failed later origination for
\* it: nothing else changes it, and no later origination for it succeeds while
\* it is still reserved by an earlier one of the same tick.
C39_ReservedAgentKept ==
    [][/\ \A a \in DOMAIN agent :
             (/\ agent[a].estado = "ringing" /\ agent[a].current_call_id # NoCall
              /\ call[agent[a].current_call_id].uniqueid # NULL
              /\ agent'[a] # agent[a]) =>
                 \/ tick' = tick /\ resp'.op = "agent_status"
                 \/ \E s \in DOMAIN tick :
                        tick'[s] # tick[s] /\ tick[s].pc \in {"dial", "answer"} /\ TickAgent(tick[s]) = a
       /\ \A s \in DOMAIN tick :
             LET k == tick[s].call IN
             (tick[s].pc = "answer" /\ tick'[s].pc = "select" /\ call'[k].uniqueid # NULL) =>
                 ~ \E i \in DOMAIN call :
                       /\ i < k /\ i >= k - tick[s].n
                       /\ call[i].agent_id = call[k].agent_id
                       /\ call[i].uniqueid # NULL /\ ~call[i].ended]_vars

====
